---- MODULE Spec2Model ----
(***************************************************************************)
(* psmq: a point-to-point message queue on a Redis backend.                *)
(*                                                                         *)
(* The Python client (psmq/queue_ops.py, psmq/queue.py) sends every queue  *)
(* operation to the backend as one FCALL of a function of the library      *)
(* psmq_library.lua.  The client side is translated from the Python        *)
(* source.  The library functions are the fcall_* operators: they are      *)
(* written from the specification of the QueueStore (section 4.3) and from *)
(* the keys the tests read back (QUEUES, <name>, <name>:Q).                *)
(*                                                                         *)
(* Every FCALL is executed atomically by the backend, so one FCALL is one  *)
(* step of the model.  Clients are anonymous: any number of producers and  *)
(* consumers is the nondeterministic choice of the next action.            *)
(***************************************************************************)
EXTENDS Integers, Sequences, FiniteSets, TLC

(***************************************************************************)
(* Bounds of the model.                                                    *)
(***************************************************************************)
\* the clock starts at StartMs (epoch milliseconds are positive) and advances
\* in steps of TickMs milliseconds up to MaxNow; within one millisecond it
\* advances by single microseconds up to MaxUs
StartMs == 1000
TickMs == 1100
MaxNow == 2500
MaxUs == 1
\* the clients make at most MaxCalls calls in one behaviour
MaxCalls == 3
\* number of distinct random suffixes a message id can get at one instant
NRand == 2
\* the stream: entries published, clock step and end, calls made
MaxEntries == 2
StreamTickMs == 1500
StreamMaxNow == 5500
MaxStreamCalls == 8
\* the step of the clock for the consumers that call get for ever
LiveTickMs == 4000

(***************************************************************************)
(* Program constants.                                                      *)
(***************************************************************************)
DEFAULT_VT == 60
\* the number of random characters at the end of a message id
RandomLen == 22
DEFAULT_DELAY == 0
DEFAULT_MAX_SIZE == 65565
\* scores and fr are milliseconds, vt and delay are seconds
MsPerSec == 1000
UsPerMs == 1000

QUEUE_SET_KEY == "QUEUES"

(***************************************************************************)
(* Input domains.                                                          *)
(***************************************************************************)
\* a name of 161 characters, one more than QNAME_MAX_LENGTH
LongName == "aaaaaaaaaaaaaaaaaaaaaaaaaaaaaaaaaaaaaaaaaaaaaaaaaaaaaaaaaaaaaaaaaaaaaaaaaaaaaaaaaaaaaaaaaaaaaaaaaaaaaaaaaaaaaaaaaaaaaaaaaaaaaaaaaaaaaaaaaaaaaaaaaaaaaaaaaaaaaaaaa"
\* the names create_queue and Queue() are called with: a valid one, the
\* empty one, one with the characters @ and ! in it, and the long one
Names == {"q1", "", "bad@na!e", LongName}
\* the names the store is defined on, and the ones the clients of Spec use
QNames == {"q1", "q2"}
Active == {"q1"}
\* the characters of a name, one by one
Chars(name) ==
    CASE name = "" -> <<>>
      [] name = "q1" -> <<"q", "1">>
      [] name = "q2" -> <<"q", "2">>
      [] name = "QUEUES" -> <<"Q", "U", "E", "U", "E", "S">>
      [] name = "bad@na!e" -> <<"b", "a", "d", "@", "n", "a", "!", "e">>
      [] name = LongName -> [i \in 1..161 |-> "a"]
\* message bodies are byte strings; only their content and length matter
Bodies == {<<1>>, <<2, 2>>}
VtValues == {0, 1}
DelayValues == {-2, 0, 1}
\* the values Queue.push_many is given: two integers and a Python set, and
\* the batches it is called with
IntValue(n) == [kind |-> "int", v |-> n]
SetValue == [kind |-> "set", v |-> 0]
Batches == {<<IntValue(1), IntValue(22)>>, <<IntValue(1), SetValue>>}
\* the configurations create_queue is called with: <<vt, delay, max_size>>
CreateArgs == {<<1, 0, 0>>, <<0, 1, 1>>}
\* the time-to-live values Queue.push is called with
TtlValues == {5}
\* the values Queue.push is called with
PushValues == {IntValue(1), SetValue}
\* the consumer group of the stream and its consumers; the counts that
\* Consumer.get, autoclaim and pop are called with; the id lists ack is
\* called with
Groups == {"g"}
Consumers == {"a", "b"}
Counts == {1, 2}
AckArgs == {<<1>>, <<2>>, <<1, 2>>}
\* the values the set_queue_* calls write
SetVt == {0}
SetDelay == {1}
SetMaxSize == {1}

\* an optional argument: <<>> is Python's None, <<v>> is the value v
None == <<>>
Some(v) == <<v>>
Opt(S) == {None} \cup {Some(v) : v \in S}

EmptyFn == [x \in {} |-> 0]
Put(f, k, v) == [x \in (DOMAIN f) \cup {k} |-> IF x = k THEN v ELSE f[x]]
Drop(f, k) == [x \in (DOMAIN f) \ {k} |-> f[x]]

(***************************************************************************)
(* State.                                                                  *)
(***************************************************************************)
VARIABLES
    now,       \* the backend clock (TIME), in milliseconds
    usec,      \* the microseconds of the clock within the millisecond
    QUEUES,    \* the set stored under the key QUEUES: the queue names
    zset,      \* zset[q]: the sorted index under the key q, member -> score
    hash,      \* hash[q]: the map under the key q:Q
    issued,    \* every message id ever generated
    hist,      \* hist[q]: calls counted since q was created (history)
    lease,     \* lease[q][id]: the last get_message delivery of id (history)
    gone,      \* gone[q]: ids removed by delete_message or pop_message (history)
    erased,    \* erased[q]: ids erased with their queue by delete_queue (history)
    calls,     \* the number of calls made so far
    last,      \* the last call and what it returned
    popping,   \* the message a Queue.pop has received and not yet deleted
    entries,   \* the stream: the number of entries added; their ids are 1..entries
    groups,    \* groups[g]: the consumer group g of the stream, if it exists
    objs,      \* the Consumer objects constructed so far, by consumer name
    getting,   \* getting[c]: the Consumer.get of c between its two commands
    seen,      \* seen[g]: what happened in group g since it was created (history)
    memo,      \* the cache of QueueManager.get_queue: its arguments -> the handle
    wanted     \* the names whose last manager call was a get_queue (history)

\* the variables of the queues and those of the stream
qvars == <<QUEUES, zset, hash, issued, hist, lease, gone, erased, popping>>
svars == <<entries, groups, objs, getting, seen>>
\* the variables of the QueueManager
mvars == <<memo, wanted>>
vars == <<now, usec, QUEUES, zset, hash, issued, hist, lease, gone, erased, calls, last,
          popping, entries, groups, objs, getting, seen, memo, wanted>>

\* hash[q] when the key q:Q does not exist
EmptyHash == [cfg |-> EmptyFn, body |-> EmptyFn, metadata |-> EmptyFn,
              rc |-> EmptyFn, fr |-> EmptyFn]

\* the backend's data as one value, handed to and returned by the functions
Store == [QUEUES |-> QUEUES, zset |-> zset, hash |-> hash]

NowS(t) == t \div MsPerSec
NowUs(t) == t * UsPerMs + usec

(***************************************************************************)
(* Message ids (library function make_message_id).  An id is the base-36   *)
(* encoding of the microsecond timestamp followed by 22 random characters. *)
(* It is kept as the pair of the timestamp and the random suffix.          *)
(***************************************************************************)
make_message_id(now_us, r) == [ts |-> now_us, rnd |-> r]

\* the base-36 digits of n as ASCII codes, 0-9 then A-Z, without padding
RECURSIVE base36encode(_)
base36encode(n) ==
    LET d == n % 36
        c == IF d < 10 THEN 48 + d ELSE 55 + d
    IN  IF n < 36 THEN <<c>> ELSE base36encode(n \div 36) \o <<c>>

\* the random characters of the id whose suffix is the r-th: RandomLen
\* letters, told apart by the last one
RandomChars(r) == [i \in 1..RandomLen |-> IF i = RandomLen THEN 64 + r ELSE 65]

\* the id as the string the library returns
IdString(id) == base36encode(id.ts) \o RandomChars(id.rnd)

\* the string a sorts before the string b, byte by byte
StrLess(a, b) ==
    \/ \E i \in 1..Len(a) :
          /\ i <= Len(b)
          /\ \A j \in 1..(i - 1) : a[j] = b[j]
          /\ a[i] < b[i]
    \/ /\ Len(a) < Len(b)
       /\ \A j \in 1..Len(a) : a[j] = b[j]

\* the order of the sorted index among members of equal score
IdLess(a, b) == a.ts < b.ts \/ (a.ts = b.ts /\ a.rnd < b.rnd)

(***************************************************************************)
(* Reading the map q:Q.                                                    *)
(***************************************************************************)
Cfg(st, q, f) == st.hash[q].cfg[f]
RcOf(h, id) == IF id \in DOMAIN h.rc THEN h.rc[id] ELSE 0
FrOf(h, id) == IF id \in DOMAIN h.fr THEN h.fr[id] ELSE 0

\* HSET q:Q f v on a configuration field or counter
SetCfg(st, q, f, v) ==
    [st EXCEPT !.hash[q].cfg = Put(@, f, v)]

\* the entries of the index with score <= t (ZRANGEBYSCORE q -inf t)
Ready(z, t) == {m \in DOMAIN z : z[m] <= t}

\* the first of them as it would be if the index were read from its end
First_from_end(z, t) ==
    CHOOSE m \in Ready(z, t) :
        \A o \in Ready(z, t) \ {m} :
            z[m] > z[o] \/ (z[m] = z[o] /\ IdLess(o, m))

\* the first of them in index order: smallest score, then smallest member
First(z, t) ==
    CHOOSE m \in Ready(z, t) :
        \A o \in Ready(z, t) \ {m} :
            z[m] < z[o] \/ (z[m] = z[o] /\ IdLess(m, o))

(***************************************************************************)
(* The library functions.  Each takes the store and the clock and returns  *)
(* the new store with the reply: val (an integer or id), list (a reply     *)
(* that is a list of alternating field names and values) and err.          *)
(***************************************************************************)
Reply(st, val, list, err) == [st |-> st, val |-> val, list |-> list, err |-> err]

\* the fields of the map f as the list <<name, value, name, value, ...>>
KvList(names, f) ==
    [i \in 1..(2 * Len(names)) |->
        IF i % 2 = 1 THEN names[(i + 1) \div 2] ELSE f[names[i \div 2]]]

InfoFields == <<"vt", "delay", "maxsize", "totalrecv", "totalsent",
                "created", "modified", "msgs", "hiddenmsgs">>
MessageFields == <<"msg_id", "msg_body", "metadata", "rc", "fr">>

\* the queue's map right after creation
NewCfg(vt, delay, maxsize, t) ==
    [f \in {"vt", "delay", "maxsize", "created", "modified", "totalrecv", "totalsent"} |->
        CASE f = "vt" -> vt
          [] f = "delay" -> delay
          [] f = "maxsize" -> maxsize
          [] f = "created" -> NowS(t)
          [] f = "modified" -> NowS(t)
          [] OTHER -> 0]

\* create_queue(name, vt?, delay?, maxsize?): 1 when created, 0 when it exists
fcall_create_queue(st, q, vt, delay, maxsize, t) ==
    IF q \in st.QUEUES
    THEN Reply(st, 0, <<>>, "")
    ELSE Reply([st EXCEPT !.QUEUES = @ \cup {q},
                          !.hash[q] = [EmptyHash EXCEPT !.cfg =
                              NewCfg(IF vt = None THEN DEFAULT_VT ELSE vt[1],
                                     IF delay = None THEN DEFAULT_DELAY ELSE delay[1],
                                     IF maxsize = None THEN DEFAULT_MAX_SIZE ELSE maxsize[1],
                                     t)],
                          !.zset[q] = EmptyFn],
               1, <<>>, "")

\* delete_queue(name): drop the name, the index and the map
fcall_delete_queue(st, q) ==
    Reply([st EXCEPT !.QUEUES = @ \ {q},
                     !.hash[q] = EmptyHash,
                     !.zset[q] = EmptyFn],
          0, <<>>, "")

\* the store after the queue was created with defaults if it was missing
EnsureQueue(st, q, t) == fcall_create_queue(st, q, None, None, None, t).st

\* get_queue_info as it would be if hiddenmsgs counted the scores >= now
QueueInfo_hidden_inclusive(st, q, t) ==
    [f \in (DOMAIN st.hash[q].cfg) \cup {"msgs", "hiddenmsgs"} |->
        CASE f = "msgs" -> Cardinality(DOMAIN st.zset[q])
          [] f = "hiddenmsgs" -> Cardinality({m \in DOMAIN st.zset[q] : st.zset[q][m] >= t})
          [] OTHER -> st.hash[q].cfg[f]]

\* get_queue_info(name): configuration, counters, msgs and hiddenmsgs
QueueInfo(st, q, t) ==
    [f \in (DOMAIN st.hash[q].cfg) \cup {"msgs", "hiddenmsgs"} |->
        CASE f = "msgs" -> Cardinality(DOMAIN st.zset[q])
          [] f = "hiddenmsgs" -> Cardinality({m \in DOMAIN st.zset[q] : st.zset[q][m] > t})
          [] OTHER -> st.hash[q].cfg[f]]

fcall_get_queue_info(st, q, t) ==
    LET st1 == EnsureQueue(st, q, t)
    IN  Reply(st1, 0, KvList(InfoFields, QueueInfo(st1, q, t)), "")

\* set_queue_viz_timeout / set_queue_initial_delay / set_queue_max_size
fcall_set_queue_field(st, q, f, v, t) ==
    Reply(SetCfg(SetCfg(st, q, f, v), q, "modified", NowS(t)), 0, <<>>, "")

\* push_message as it would be if it counted a message before checking its size
fcall_push_message_counts_first(st, q, message, delay, metadata, t, r) ==
    LET st1 == SetCfg(EnsureQueue(st, q, t), q, "totalsent",
                      Cfg(EnsureQueue(st, q, t), q, "totalsent") + 1)
        maxsize == Cfg(st1, q, "maxsize")
        eff == IF delay # None /\ delay[1] >= 0 THEN delay[1] ELSE Cfg(st1, q, "delay")
        id == make_message_id(NowUs(t), r)
        md == Put(metadata, "sent", NowS(t))
    IN  IF maxsize > 0 /\ Len(message) > maxsize
        THEN Reply(st1, 0, <<>>, "MessageTooLarge")
        ELSE Reply([st1 EXCEPT !.zset[q] = Put(@, id, t + eff * MsPerSec),
                               !.hash[q].body = Put(@, id, message),
                               !.hash[q].metadata = Put(@, id, md)],
                   id, <<>>, "")

\* push_message as it would be if it refused a body of exactly maxsize bytes
fcall_push_message_size_inclusive(st, q, message, delay, metadata, t, r) ==
    LET st1 == EnsureQueue(st, q, t)
        maxsize == Cfg(st1, q, "maxsize")
        eff == IF delay # None /\ delay[1] >= 0 THEN delay[1] ELSE Cfg(st1, q, "delay")
        id == make_message_id(NowUs(t), r)
        md == Put(metadata, "sent", NowS(t))
    IN  IF maxsize > 0 /\ Len(message) >= maxsize
        THEN Reply(st, 0, <<>>, "MessageTooLarge")
        ELSE Reply([st1 EXCEPT !.zset[q] = Put(@, id, t + eff * MsPerSec),
                               !.hash[q].body = Put(@, id, message),
                               !.hash[q].metadata = Put(@, id, md),
                               !.hash[q].cfg = Put(@, "totalsent", @["totalsent"] + 1)],
                   id, <<>>, "")

\* push_message as it would be if it refused a queue that does not exist
fcall_push_message_requires_queue(st, q, message, delay, metadata, t, r) ==
    LET st1 == EnsureQueue(st, q, t)
        maxsize == Cfg(st1, q, "maxsize")
        eff == IF delay # None /\ delay[1] >= 0 THEN delay[1] ELSE Cfg(st1, q, "delay")
        id == make_message_id(NowUs(t), r)
        md == Put(metadata, "sent", NowS(t))
    IN  IF q \notin st.QUEUES
        THEN Reply(st, 0, <<>>, "QueueDoesNotExist")
        ELSE IF maxsize > 0 /\ Len(message) > maxsize
        THEN Reply(st, 0, <<>>, "MessageTooLarge")
        ELSE Reply([st1 EXCEPT !.zset[q] = Put(@, id, t + eff * MsPerSec),
                               !.hash[q].body = Put(@, id, message),
                               !.hash[q].metadata = Put(@, id, md),
                               !.hash[q].cfg = Put(@, "totalsent", @["totalsent"] + 1)],
                   id, <<>>, "")

\* push_message(name, body, delay, metadata)
fcall_push_message(st, q, message, delay, metadata, t, r) ==
    LET st1 == EnsureQueue(st, q, t)
        maxsize == Cfg(st1, q, "maxsize")
        eff == IF delay # None /\ delay[1] >= 0 THEN delay[1] ELSE Cfg(st1, q, "delay")
        id == make_message_id(NowUs(t), r)
        md == Put(metadata, "sent", NowS(t))
    IN  IF maxsize > 0 /\ Len(message) > maxsize
        THEN Reply(st, 0, <<>>, "MessageTooLarge")
        ELSE Reply([st1 EXCEPT !.zset[q] = Put(@, id, t + eff * MsPerSec),
                               !.hash[q].body = Put(@, id, message),
                               !.hash[q].metadata = Put(@, id, md),
                               !.hash[q].cfg = Put(@, "totalsent", @["totalsent"] + 1)],
                   id, <<>>, "")

\* get_message as it would be if it set id:fr at every receive
fcall_get_message_resets_fr(st, q, vt, t) ==
    IF q \notin st.QUEUES \/ Ready(st.zset[q], t) = {}
    THEN Reply(st, 0, <<>>, "")
    ELSE LET id == First(st.zset[q], t)
             h == st.hash[q]
             eff == IF vt # None THEN vt[1] ELSE Cfg(st, q, "vt")
             rc == RcOf(h, id) + 1
         IN  Reply([st EXCEPT !.zset[q] = Put(@, id, t + eff * MsPerSec),
                              !.hash[q].rc = Put(@, id, rc),
                              !.hash[q].fr = Put(@, id, t),
                              !.hash[q].cfg = Put(@, "totalrecv", @["totalrecv"] + 1)],
                   0,
                   KvList(MessageFields,
                          [msg_id |-> id, msg_body |-> h.body[id],
                           metadata |-> h.metadata[id], rc |-> rc, fr |-> t]),
                   "")

\* get_message as it would be if it added the timeout to the old score
fcall_get_message_from_old_score(st, q, vt, t) ==
    IF q \notin st.QUEUES \/ Ready(st.zset[q], t) = {}
    THEN Reply(st, 0, <<>>, "")
    ELSE LET id == First(st.zset[q], t)
             h == st.hash[q]
             eff == IF vt # None THEN vt[1] ELSE Cfg(st, q, "vt")
             rc == RcOf(h, id) + 1
             fr == IF FrOf(h, id) = 0 THEN t ELSE FrOf(h, id)
         IN  Reply([st EXCEPT !.zset[q] = Put(@, id, st.zset[q][id] + eff * MsPerSec),
                              !.hash[q].rc = Put(@, id, rc),
                              !.hash[q].fr = Put(@, id, fr),
                              !.hash[q].cfg = Put(@, "totalrecv", @["totalrecv"] + 1)],
                   0,
                   KvList(MessageFields,
                          [msg_id |-> id, msg_body |-> h.body[id],
                           metadata |-> h.metadata[id], rc |-> rc, fr |-> fr]),
                   "")

\* get_message as it would be if it left id:rc as it was
fcall_get_message_keeps_rc(st, q, vt, t) ==
    IF q \notin st.QUEUES \/ Ready(st.zset[q], t) = {}
    THEN Reply(st, 0, <<>>, "")
    ELSE LET id == First(st.zset[q], t)
             h == st.hash[q]
             eff == IF vt # None THEN vt[1] ELSE Cfg(st, q, "vt")
             rc == IF RcOf(h, id) = 0 THEN 1 ELSE RcOf(h, id)
             fr == IF FrOf(h, id) = 0 THEN t ELSE FrOf(h, id)
         IN  Reply([st EXCEPT !.zset[q] = Put(@, id, t + eff * MsPerSec),
                              !.hash[q].rc = Put(@, id, rc),
                              !.hash[q].fr = Put(@, id, fr),
                              !.hash[q].cfg = Put(@, "totalrecv", @["totalrecv"] + 1)],
                   0,
                   KvList(MessageFields,
                          [msg_id |-> id, msg_body |-> h.body[id],
                           metadata |-> h.metadata[id], rc |-> rc, fr |-> fr]),
                   "")

\* get_message(name, vt?)
fcall_get_message(st, q, vt, t) ==
    IF q \notin st.QUEUES \/ Ready(st.zset[q], t) = {}
    THEN Reply(st, 0, <<>>, "")
    ELSE LET id == First(st.zset[q], t)
             h == st.hash[q]
             eff == IF vt # None THEN vt[1] ELSE Cfg(st, q, "vt")
             rc == RcOf(h, id) + 1
             fr == IF FrOf(h, id) = 0 THEN t ELSE FrOf(h, id)
         IN  Reply([st EXCEPT !.zset[q] = Put(@, id, t + eff * MsPerSec),
                              !.hash[q].rc = Put(@, id, rc),
                              !.hash[q].fr = Put(@, id, fr),
                              !.hash[q].cfg = Put(@, "totalrecv", @["totalrecv"] + 1)],
                   0,
                   KvList(MessageFields,
                          [msg_id |-> id, msg_body |-> h.body[id],
                           metadata |-> h.metadata[id], rc |-> rc, fr |-> fr]),
                   "")

\* delete_message as it would be if it left the fields id:rc and id:fr behind
fcall_delete_message_keeps_counters(st, q, id) ==
    Reply([st EXCEPT !.zset[q] = Drop(@, id),
                     !.hash[q].body = Drop(@, id),
                     !.hash[q].metadata = Drop(@, id)],
          0, <<>>, "")

\* delete_message(name, id)
fcall_delete_message(st, q, id) ==
    Reply([st EXCEPT !.zset[q] = Drop(@, id),
                     !.hash[q].body = Drop(@, id),
                     !.hash[q].metadata = Drop(@, id),
                     !.hash[q].rc = Drop(@, id),
                     !.hash[q].fr = Drop(@, id)],
          0, <<>>, "")

\* pop_message(name): the receive and the removal in one call
fcall_pop_message(st, q, t) ==
    LET got == fcall_get_message(st, q, None, t)
    IN  IF got.list = <<>>
        THEN got
        ELSE Reply(fcall_delete_message(got.st, q, got.list[2]).st, 0, got.list, "")

(***************************************************************************)
(* psmq/validation.py: queue names.                                        *)
(***************************************************************************)
QNAME_MAX_LENGTH == 160

\* the characters QNAME_INVALID_CHARS_RE does not match: A-Z a-z 0-9 . _ -
ValidChars ==
    {"A", "B", "C", "D", "E", "F", "G", "H", "I", "J", "K", "L", "M",
     "N", "O", "P", "Q", "R", "S", "T", "U", "V", "W", "X", "Y", "Z",
     "a", "b", "c", "d", "e", "f", "g", "h", "i", "j", "k", "l", "m",
     "n", "o", "p", "q", "r", "s", "t", "u", "v", "w", "x", "y", "z",
     "0", "1", "2", "3", "4", "5", "6", "7", "8", "9", ".", "_", "-"}

\* QNAME_INVALID_CHARS_RE.search(qname): the position of the first
\* character that is not allowed, 0 when there is none
InvalidAt(qname) ==
    IF \A i \in DOMAIN qname : qname[i] \in ValidChars THEN 0
    ELSE CHOOSE i \in DOMAIN qname :
            /\ qname[i] \notin ValidChars
            /\ \A j \in 1..(i - 1) : qname[j] \in ValidChars

\* validate_queue_name: val is what it returns, err the exception it raises
\* ("" when it returns) and ch the character InvalidCharacter carries
validate_queue_name(qname, raise_on_error) ==
    LET err == CASE qname = <<>> -> "InvalidQueueName"
                 [] qname # <<>> /\ Len(qname) > QNAME_MAX_LENGTH -> "QueueNameTooLong"
                 [] qname # <<>> /\ Len(qname) <= QNAME_MAX_LENGTH
                        /\ InvalidAt(qname) # 0 -> "InvalidCharacter"
                 [] OTHER -> ""
    IN  [val |-> (err = ""),
         err |-> IF raise_on_error THEN err ELSE "",
         ch |-> IF raise_on_error /\ err = "InvalidCharacter"
                THEN qname[InvalidAt(qname)] ELSE ""]

(***************************************************************************)
(* The client functions of psmq/queue_ops.py.  Each sends one FCALL and    *)
(* converts the reply.                                                     *)
(***************************************************************************)
\* umsgpack.packb of a dict and umsgpack.unpackb of the blob the library
\* returns; the blob is kept as the map it encodes
packb(metadata) == metadata
unpackb(blob) == blob

\* psmq/utils.py: a list of alternating keys and values as a dict
list_to_dict(kv_list) ==
    LET n == Len(kv_list) \div 2
    IN  [k \in {kv_list[2 * i - 1] : i \in 1..n} |->
            kv_list[2 * (CHOOSE i \in 1..n :
                            /\ kv_list[2 * i - 1] = k
                            /\ \A j \in (i + 1)..n : kv_list[2 * j - 1] # k)]]

\* create_queue as it would be if it returned True whatever the reply
create_queue_returns_true(st, name, vt, delay, max_size, t) ==
    LET r == fcall_create_queue(st, name, Some(vt), Some(delay), Some(max_size), t)
    IN  [st |-> r.st, val |-> TRUE, err |-> ""]

\* the four arguments are always sent; the reply 1 or 0 is returned as a bool
\* the name is validated without raise_on_error and the result is not used
create_queue(st, name, vt, delay, max_size, t) ==
    LET valid == validate_queue_name(Chars(name), FALSE)
        r == fcall_create_queue(st, name, Some(vt), Some(delay), Some(max_size), t)
    IN  [st |-> r.st, val |-> (r.val # 0), err |-> valid.err]

\* delete_queue as it would be if the call never reached the library
delete_queue_sends_nothing(st, name) == Reply(st, 0, <<>>, "")

delete_queue(st, name) == fcall_delete_queue(st, name)

list_queues(st) == st.QUEUES

\* QueueConfiguration as it would be if delay and maxsize were exchanged
QueueConfiguration_swapped(results) ==
    [visibility_timeout |-> results["vt"], initial_delay |-> results["maxsize"],
     max_size |-> results["delay"]]

\* vt, delay and maxsize become the QueueConfiguration, the rest the QueueMetadata
QueueConfiguration(results) ==
    [visibility_timeout |-> results["vt"], initial_delay |-> results["delay"],
     max_size |-> results["maxsize"]]

\* QueueMetadata as it would be if msgs and hiddenmsgs were exchanged
QueueMetadata_swapped(results) ==
    [f \in (DOMAIN results) \ {"vt", "delay", "maxsize"} |->
        CASE f = "msgs" -> results["hiddenmsgs"]
          [] f = "hiddenmsgs" -> results["msgs"]
          [] OTHER -> results[f]]

QueueMetadata(results) ==
    [f \in (DOMAIN results) \ {"vt", "delay", "maxsize"} |-> results[f]]

get_queue_info(st, queue_name, t) ==
    LET r == fcall_get_queue_info(st, queue_name, t)
        results == list_to_dict(r.list)
    IN  [st |-> r.st,
         val |-> [config |-> QueueConfiguration(results),
                  metadata |-> QueueMetadata(results)]]

set_queue_visibility_timeout(st, queue_name, vt, t) ==
    fcall_set_queue_field(st, queue_name, "vt", vt, t)

\* set_queue_initial_delay as it would be if it wrote the visibility timeout
set_queue_initial_delay_writes_vt(st, queue_name, delay, t) ==
    fcall_set_queue_field(st, queue_name, "vt", delay, t)

set_queue_initial_delay(st, queue_name, delay, t) ==
    fcall_set_queue_field(st, queue_name, "delay", delay, t)

set_queue_max_size(st, queue_name, max_size, t) ==
    fcall_set_queue_field(st, queue_name, "maxsize", max_size, t)

\* push_message as it would be if it never sent the delay it is given
push_message_drops_delay(st, queue_name, message, delay, ttl, metadata, t, r) ==
    fcall_push_message(st, queue_name, message, Some(-1),
                       packb(IF metadata = None THEN EmptyFn ELSE metadata[1]),
                       t, r)

\* push_message as it would be if it sent 0 for a delay that is not given
push_message_sends_zero(st, queue_name, message, delay, ttl, metadata, t, r) ==
    fcall_push_message(st, queue_name, message,
                       Some(IF delay = None THEN 0 ELSE delay[1]),
                       packb(IF metadata = None THEN EmptyFn ELSE metadata[1]),
                       t, r)

\* metadata None becomes the empty dict, delay None becomes -1; ttl is not sent
push_message(st, queue_name, message, delay, ttl, metadata, t, r) ==
    fcall_push_message(st, queue_name, message,
                       Some(IF delay = None THEN -1 ELSE delay[1]),
                       packb(IF metadata = None THEN EmptyFn ELSE metadata[1]),
                       t, r)

(***************************************************************************)
(* psmq/queue.py and psmq/serialize.py: Queue.push_many.                   *)
(***************************************************************************)
\* the decimal digits of n as ASCII codes
RECURSIVE Digits(_)
Digits(n) == IF n < 10 THEN <<48 + n>> ELSE Digits(n \div 10) \o <<48 + (n % 10)>>

\* json.dumps(message).encode(): an integer becomes its decimal digits, a
\* set is not JSON serializable
default_serializer(message) ==
    IF message.kind = "int"
    THEN [ok |-> TRUE, val |-> Digits(message.v)]
    ELSE [ok |-> FALSE, val |-> <<>>]

\* Queue.serialize: any exception of the serializer becomes UnserializableMessage
serialize(message) ==
    LET r == default_serializer(message)
    IN  [val |-> r.val, err |-> IF r.ok THEN "" ELSE "UnserializableMessage"]

\* tx.execute(): the queued FCALLs run one after the other between MULTI and
\* EXEC; a call that fails does not undo or stop the others
RECURSIVE execute(_, _, _, _, _, _)
execute(st, queue_name, bodies, delay, t, rnds) ==
    IF bodies = <<>>
    THEN [st |-> st, replies |-> <<>>]
    ELSE LET r == push_message(st, queue_name, Head(bodies), delay, None, None,
                               t, Head(rnds))
             rest == execute(r.st, queue_name, Tail(bodies), delay, t, Tail(rnds))
         IN  [st |-> rest.st, replies |-> <<r>> \o rest.replies]

\* the first error among the replies, which execute() raises, or ""
FirstError(replies) ==
    IF \A i \in DOMAIN replies : replies[i].err = "" THEN ""
    ELSE replies[CHOOSE i \in DOMAIN replies :
                    /\ replies[i].err # ""
                    /\ \A j \in 1..(i - 1) : replies[j].err = ""].err

\* Queue.push_many: every message is serialized and queued on the pipeline,
\* then the pipeline is executed; the ids come back in input order
push_many(st, queue_name, messages, delay, ttl, t, rnds) ==
    LET ser == [i \in DOMAIN messages |-> serialize(messages[i])]
    IN  IF FirstError(ser) # ""
        THEN [st |-> st, ids |-> <<>>, err |-> FirstError(ser)]
        ELSE LET x == execute(st, queue_name, [i \in DOMAIN ser |-> ser[i].val],
                              delay, t, rnds)
             IN  [st |-> x.st,
                  ids |-> IF FirstError(x.replies) = ""
                          THEN [i \in DOMAIN x.replies |-> x.replies[i].val]
                          ELSE <<>>,
                  err |-> FirstError(x.replies)]

\* the reply of a receive as a ReceivedMessage; sent and first_retrieved
\* are kept in the units of the reply (seconds and milliseconds)
ReceivedMessage(queue_name, msg_dict) ==
    LET metadata == unpackb(msg_dict["metadata"])
    IN  [queue_name |-> queue_name, message_id |-> msg_dict["msg_id"],
         data |-> msg_dict["msg_body"], metadata |-> metadata,
         sent |-> metadata["sent"], first_retrieved |-> msg_dict["fr"],
         retrieval_count |-> msg_dict["rc"]]

\* what get_message returns for the reply r: the message, or None when the
\* reply is empty
Received(queue_name, r) ==
    LET msg_dict == list_to_dict(r.list)
    IN  [st |-> r.st,
         msg |-> IF msg_dict # EmptyFn THEN Some(ReceivedMessage(queue_name, msg_dict))
                 ELSE None]

\* get_message as it would be if it always sent a visibility timeout of 0
get_message_sends_zero_vt(st, queue_name, visibility_timeout, t) ==
    Received(queue_name, fcall_get_message(st, queue_name, Some(0), t))

\* get_message as it would be if it dropped a non-empty reply
get_message_loses_reply(st, queue_name, visibility_timeout, t) ==
    LET r == IF visibility_timeout # None
             THEN fcall_get_message(st, queue_name, Some(visibility_timeout[1]), t)
             ELSE fcall_get_message(st, queue_name, None, t)
    IN  [st |-> r.st, msg |-> None]

\* get_message as it would be if it sent the default visibility timeout
\* when none is given
get_message_sends_default_vt(st, queue_name, visibility_timeout, t) ==
    IF visibility_timeout # None
    THEN Received(queue_name,
                  fcall_get_message(st, queue_name, Some(visibility_timeout[1]), t))
    ELSE Received(queue_name, fcall_get_message(st, queue_name, Some(DEFAULT_VT), t))

\* two keys when a visibility timeout is given, one key otherwise
get_message(st, queue_name, visibility_timeout, t) ==
    IF visibility_timeout # None
    THEN Received(queue_name,
                  fcall_get_message(st, queue_name, Some(visibility_timeout[1]), t))
    ELSE Received(queue_name, fcall_get_message(st, queue_name, None, t))

\* delete_message as it would be if it sent delete_queue
delete_message_sends_delete_queue(st, queue_name, msg_id) ==
    fcall_delete_queue(st, queue_name)

\* delete_message as it would be if the call never reached the library
delete_message_noop(st, queue_name, msg_id) == Reply(st, 0, <<>>, "")

delete_message(st, queue_name, msg_id) == fcall_delete_message(st, queue_name, msg_id)

\* pop_message as it would be if it sent get_message
pop_message_sends_get(st, queue_name, t) ==
    LET r == fcall_get_message(st, queue_name, None, t)
    IN  [st |-> r.st, val |-> list_to_dict(r.list)]

\* the reply is returned as the dict of the library's fields, empty when
\* there was no message
pop_message(st, queue_name, t) ==
    LET r == fcall_pop_message(st, queue_name, t)
    IN  [st |-> r.st, val |-> list_to_dict(r.list)]

(***************************************************************************)
(* psmq/serialize.py and psmq/queue.py: the Queue class.                   *)
(***************************************************************************)
\* the number a string of decimal digits stands for
RECURSIVE Number(_)
Number(bytes) ==
    IF bytes = <<>> THEN 0
    ELSE 10 * Number(SubSeq(bytes, 1, Len(bytes) - 1)) + (bytes[Len(bytes)] - 48)

\* json.loads(message.decode("utf-8")): decimal digits without a leading
\* zero are an integer; the other byte strings of the model are not JSON
default_deserializer(message) ==
    IF /\ message # <<>>
       /\ \A i \in DOMAIN message : message[i] \in 48..57
       /\ (Len(message) > 1 => message[1] # 48)
    THEN [ok |-> TRUE, val |-> IntValue(Number(message))]
    ELSE [ok |-> FALSE, val |-> IntValue(0)]

\* Queue.deserialize as it would be if it returned the bytes it cannot decode
deserialize_returns_bytes(message) ==
    LET r == default_deserializer(message)
    IN  [val |-> IF r.ok THEN r.val ELSE message, err |-> ""]

\* Queue.deserialize: any exception of the deserializer becomes
\* UndeserializableMessage
deserialize(message) ==
    LET r == default_deserializer(message)
    IN  [val |-> r.val, err |-> IF r.ok THEN "" ELSE "UndeserializableMessage"]

\* Queue.__init__: the name is validated, the queue is created with the
\* default configuration given (or the defaults of create_queue) unless it
\* exists, and its configuration and metadata are read
Queue_init(st, name, default_config, t) ==
    LET v == validate_queue_name(Chars(name), TRUE)
        c == IF default_config # None THEN default_config[1]
             ELSE <<DEFAULT_VT, DEFAULT_DELAY, DEFAULT_MAX_SIZE>>
        made == create_queue(st, name, c[1], c[2], c[3], t)
        q_info == get_queue_info(made.st, name, t)
    IN  IF v.err # ""
        THEN [st |-> st, err |-> v.err, ch |-> v.ch, info |-> None]
        ELSE [st |-> q_info.st, err |-> "", ch |-> "", info |-> Some(q_info.val)]

\* Queue.metadata
Queue_metadata(st, name, t) ==
    LET q_info == get_queue_info(st, name, t)
    IN  [st |-> q_info.st, val |-> q_info.val.metadata]

\* Queue.push: the serialized message is pushed, with the delay and the ttl
Queue_push(st, name, message, delay, ttl, t, r) ==
    LET serialized == serialize(message)
    IN  IF serialized.err # ""
        THEN Reply(st, 0, <<>>, serialized.err)
        ELSE push_message(st, name, serialized.val, delay, ttl, None, t, r)

\* Queue.delete
Queue_delete(st, name, msg_id) == delete_message(st, name, msg_id)

\* Queue.get as it would be if it returned None whatever raise_on_empty is
Queue_get_never_raises(st, name, visibility_timeout, raise_on_empty, t) ==
    LET r == get_message(st, name, visibility_timeout, t)
        d == deserialize(r.msg[1].data)
    IN  IF r.msg = None
        THEN [st |-> r.st, msg |-> None, err |-> "", recv |-> None]
        ELSE IF r.msg[1].data = <<>>
        THEN [st |-> r.st, msg |-> r.msg, err |-> "", recv |-> r.msg]
        ELSE IF d.err # ""
        THEN [st |-> r.st, msg |-> None, err |-> d.err, recv |-> r.msg]
        ELSE [st |-> r.st, msg |-> Some([r.msg[1] EXCEPT !.data = d.val]),
              err |-> "", recv |-> r.msg]

\* Queue.get: msg is what it returns, err the exception it raises, recv the
\* message get_message handed to it; data that is empty is not deserialized
Queue_get(st, name, visibility_timeout, raise_on_empty, t) ==
    LET r == get_message(st, name, visibility_timeout, t)
        d == deserialize(r.msg[1].data)
    IN  IF r.msg = None
        THEN [st |-> r.st, msg |-> None,
              err |-> IF raise_on_empty THEN "NoMessageInQueue" ELSE "",
              recv |-> None]
        ELSE IF r.msg[1].data = <<>>
        THEN [st |-> r.st, msg |-> r.msg, err |-> "", recv |-> r.msg]
        ELSE IF d.err # ""
        THEN [st |-> r.st, msg |-> None, err |-> d.err, recv |-> r.msg]
        ELSE [st |-> r.st, msg |-> Some([r.msg[1] EXCEPT !.data = d.val]),
              err |-> "", recv |-> r.msg]

(***************************************************************************)
(* The stream commands of the backend, as psmq/stream.py calls them.  An   *)
(* entry id is a number: 0 is "0-0", the entries added are 1, 2, ...       *)
(* A group is its last-delivered id, its pending entries list (id ->       *)
(* owner and time of delivery) and its consumers.                          *)
(***************************************************************************)
\* the special id "$": the last entry of the stream
Dollar == -1

StreamStore == [entries |-> entries, groups |-> groups]
Result(s, val, err) == [s |-> s, val |-> val, err |-> err]
IdOf(s, id) == IF id = Dollar THEN s.entries ELSE id

\* the elements of a set of ids in ascending order
RECURSIVE Ascending(_)
Ascending(S) ==
    IF S = {} THEN <<>>
    ELSE LET m == CHOOSE x \in S : \A y \in S : x <= y
         IN  <<m>> \o Ascending(S \ {m})

\* F(x), with x worked out once
Bind(x, F(_)) == CHOOSE y \in {F(v) : v \in {x}} : TRUE

Take(seq, n) == SubSeq(seq, 1, IF Len(seq) < n THEN Len(seq) ELSE n)
Range(seq) == {seq[i] : i \in DOMAIN seq}

\* XADD
xadd(s) == Result([s EXCEPT !.entries = @ + 1], s.entries + 1, "")

\* XGROUP CREATE stream group id MKSTREAM
xgroup_create(s, g, id, mkstream) ==
    IF s.groups[g] # None
    THEN Result(s, 0, "BUSYGROUP")
    ELSE Result([s EXCEPT !.groups[g] =
                    Some([last |-> IdOf(s, id), pel |-> EmptyFn, consumers |-> {}])],
                1, "")

\* XGROUP DESTROY
xgroup_destroy(s, g) ==
    Result([s EXCEPT !.groups[g] = None], IF s.groups[g] # None THEN 1 ELSE 0, "")

\* XGROUP SETID
xgroup_setid(s, g, id) ==
    IF s.groups[g] = None
    THEN Result(s, 0, "NOGROUP")
    ELSE Result([s EXCEPT !.groups[g][1].last = IdOf(s, id)], 1, "")

\* XGROUP CREATECONSUMER
xgroup_createconsumer(s, g, c) ==
    IF s.groups[g] = None
    THEN Result(s, 0, "NOGROUP")
    ELSE Result([s EXCEPT !.groups[g][1].consumers = @ \cup {c}],
                IF c \in s.groups[g][1].consumers THEN 0 ELSE 1, "")

\* XGROUP DELCONSUMER: the consumer goes with the entries pending for it
xgroup_delconsumer(s, g, c) ==
    IF s.groups[g] = None
    THEN Result(s, 0, "NOGROUP")
    ELSE LET grp == s.groups[g][1]
             mine == {id \in DOMAIN grp.pel : grp.pel[id].owner = c}
         IN  Result([s EXCEPT !.groups[g][1].consumers = @ \ {c},
                              !.groups[g][1].pel = [id \in (DOMAIN grp.pel) \ mine |->
                                                       grp.pel[id]]],
                    Cardinality(mine), "")

\* XAUTOCLAIM as it would be if a claimed entry kept its idle time
xautoclaim_keeps_idle(s, g, c, min_idle_time, start_id, count, t) ==
    IF s.groups[g] = None
    THEN Result(s, <<>>, "NOGROUP")
    ELSE LET grp == s.groups[g][1]
             idle == {id \in DOMAIN grp.pel :
                        id >= start_id /\ t - grp.pel[id].time >= min_idle_time}
             Claim(claimed) ==
                 Result([s EXCEPT !.groups[g][1].pel =
                                     [id \in DOMAIN grp.pel |->
                                         IF id \in Range(claimed)
                                         THEN [owner |-> c, time |-> grp.pel[id].time]
                                         ELSE grp.pel[id]],
                                  !.groups[g][1].consumers = @ \cup {c}],
                        <<0, claimed, <<>>>>, "")
         IN  Bind(Take(Ascending(idle), count), Claim)

\* XAUTOCLAIM stream group consumer min-idle-time start COUNT count: the
\* first count pending entries from start on that have been idle for
\* min-idle-time go to the consumer and their idle time starts again; the
\* reply is the next start id, the claimed entries and the deleted ids
xautoclaim(s, g, c, min_idle_time, start_id, count, t) ==
    IF s.groups[g] = None
    THEN Result(s, <<>>, "NOGROUP")
    ELSE LET grp == s.groups[g][1]
             idle == {id \in DOMAIN grp.pel :
                        id >= start_id /\ t - grp.pel[id].time >= min_idle_time}
             Claim(claimed) ==
                 Result([s EXCEPT !.groups[g][1].pel =
                                     [id \in DOMAIN grp.pel |->
                                         IF id \in Range(claimed)
                                         THEN [owner |-> c, time |-> t]
                                         ELSE grp.pel[id]],
                                  !.groups[g][1].consumers = @ \cup {c}],
                        <<0, claimed, <<>>>>, "")
         IN  Bind(Take(Ascending(idle), count), Claim)

\* XREADGROUP GROUP group consumer COUNT count [NOACK] STREAMS stream > :
\* the first count entries after the last-delivered id, which moves to the
\* last of them; without NOACK they become pending for the consumer
xreadgroup(s, g, c, count, noack, t) ==
    IF s.groups[g] = None
    THEN Result(s, <<>>, "NOGROUP")
    ELSE LET grp == s.groups[g][1]
             Read(got) ==
                 Result([s EXCEPT !.groups[g] = Some(
                            [last |-> IF got = <<>> THEN grp.last ELSE got[Len(got)],
                             pel |-> IF noack THEN grp.pel
                                     ELSE [id \in (DOMAIN grp.pel) \cup Range(got) |->
                                              IF id \in Range(got)
                                              THEN [owner |-> c, time |-> t]
                                              ELSE grp.pel[id]],
                             consumers |-> grp.consumers \cup {c}])],
                        got, "")
         IN  Bind(Take(Ascending({id \in 1..s.entries : id > grp.last}), count), Read)

\* XACK stream group id...: the ids leave the pending entries list of the
\* group, whoever owns them
xack(s, g, ids) ==
    IF s.groups[g] = None
    THEN Result(s, 0, "")
    ELSE LET grp == s.groups[g][1]
             hit == Range(ids) \cap DOMAIN grp.pel
         IN  Result([s EXCEPT !.groups[g][1].pel =
                                 [id \in (DOMAIN grp.pel) \ hit |-> grp.pel[id]]],
                    Cardinality(hit), "")

(***************************************************************************)
(* psmq/stream.py: Stream and Consumer.                                    *)
(***************************************************************************)
max_pending_time == 3000

\* Stream.publish
publish(s) == xadd(s)

\* Stream.create_consumer_group as it would be if it made the group anew
create_consumer_group_anew(s, group_name, from_start) ==
    LET r == xgroup_create(xgroup_destroy(s, group_name).s, group_name,
                           IF from_start THEN 0 ELSE Dollar, TRUE)
    IN  Result(r.s, 0, "")

\* Stream.create_consumer_group: the error of an existing group is dropped
create_consumer_group(s, group_name, from_start) ==
    LET r == xgroup_create(s, group_name, IF from_start THEN 0 ELSE Dollar, TRUE)
    IN  Result(r.s, 0, "")

\* Stream.delete_consumer_group
delete_consumer_group(s, group_name) == xgroup_destroy(s, group_name)

\* Stream.set_group_offset_id
set_group_offset_id(s, group_name, message_id) ==
    xgroup_setid(s, group_name, message_id)

\* Stream.reset_group_offset: XGROUP DELCONSUMER with the consumer name "0-0"
reset_group_offset(s, group_name) == xgroup_delconsumer(s, group_name, "0-0")

\* Stream.create_consumer
create_consumer(s, group_name, consumer_name) ==
    xgroup_createconsumer(create_consumer_group(s, group_name, TRUE).s,
                          group_name, consumer_name)

\* Consumer._setup
Consumer_setup(s, group_name, consumer_name) ==
    create_consumer(create_consumer_group(s, group_name, TRUE).s,
                    group_name, consumer_name)

\* Consumer.autoclaim as it would be if it took the reply for an empty one
autoclaim_drops_reply(s, group_name, consumer_name, count, pending_ms, t) ==
    LET Claimed(autoclaimed) == Result(autoclaimed.s, <<>>, autoclaimed.err)
    IN  Bind(xautoclaim(s, group_name, consumer_name,
                        IF pending_ms = None \/ pending_ms[1] = 0
                        THEN max_pending_time ELSE pending_ms[1],
                        0, count, t), Claimed)

\* Consumer.autoclaim: the claimed entries of the reply
autoclaim(s, group_name, consumer_name, count, pending_ms, t) ==
    LET Claimed(autoclaimed) ==
            Result(autoclaimed.s,
                   IF Len(autoclaimed.val) < 2 THEN <<>> ELSE autoclaimed.val[2],
                   autoclaimed.err)
    IN  Bind(xautoclaim(s, group_name, consumer_name,
                        IF pending_ms = None \/ pending_ms[1] = 0
                        THEN max_pending_time ELSE pending_ms[1],
                        0, count, t), Claimed)

\* Consumer.get as it would be if it returned the fresh entries first
get_read_fresh_first(s, group_name, consumer_name, count, claimed_msgs, t) ==
    LET remaining == count - Len(claimed_msgs)
        messages == xreadgroup(s, group_name, consumer_name, remaining, FALSE, t)
    IN  Result(messages.s,
               IF messages.err = "" THEN messages.val \o claimed_msgs ELSE <<>>,
               messages.err)

\* Consumer.get after its autoclaim returned fewer than count entries: the
\* remainder is read from the group and appended to the claimed entries
get_read(s, group_name, consumer_name, count, claimed_msgs, t) ==
    LET remaining == count - Len(claimed_msgs)
        Return(messages) ==
            Result(messages.s,
                   IF messages.err = "" THEN claimed_msgs \o messages.val ELSE <<>>,
                   messages.err)
    IN  Bind(xreadgroup(s, group_name, consumer_name, remaining, FALSE, t), Return)

\* Consumer.ack as it would be if it sent the first id only
ack_first_only(s, group_name, message_ids) ==
    xack(s, group_name, <<message_ids[1]>>)

\* Consumer.ack
ack(s, group_name, message_ids) == xack(s, group_name, message_ids)

\* Consumer.pop as it would be if it read without noack
pop_with_ack(s, group_name, consumer_name, count, t) ==
    xreadgroup(s, group_name, consumer_name, count, FALSE, t)

\* Consumer.pop
pop(s, group_name, consumer_name, count, t) ==
    xreadgroup(s, group_name, consumer_name, count, TRUE, t)

(***************************************************************************)
(* History kept beside the program's state, to state the properties.       *)
(***************************************************************************)
ZeroHist == [pushes |-> 0, deletes |-> 0, pops |-> 0, recvs |-> 0]

\* the counts of q after a call that took the store from st to st2;
\* they restart when the call created the queue or left it absent
HistBase(st, st2, q) ==
    IF q \notin st2.QUEUES \/ q \notin st.QUEUES THEN ZeroHist ELSE hist[q]

\* op and q: the call; id, vt: its arguments; msg: the message it returned;
\* prev: the lease the returned message had before the call; val: the
\* integer it returned (delete_message: how many entries it removed)
\* delay, body: the arguments of a push; ids: what push_many returned;
\* args: the configuration create_queue was called with, or the messages
\* push_many was called with; created: what
\* create_queue returned, and for get_queue_info and push_message whether
\* the queue was missing; info: what get_queue_info returned; wrote: the
\* ids push_many added to the index; pre: the store before a call of the
\* Queue class; roe: raise_on_empty; ttl: the ttl of a push; recv: the
\* message Queue.get received from get_message; ch: the character an
\* InvalidCharacter error carries
NoCall == [op |-> "init", q |-> "", id |-> None, vt |-> None,
           msg |-> None, prev |-> None, val |-> 0, err |-> "",
           delay |-> None, body |-> <<>>, ids |-> <<>>, args |-> <<>>,
           created |-> FALSE, info |-> None, wrote |-> {},
           pre |-> None, roe |-> FALSE, ttl |-> None, recv |-> None, ch |-> ""]

\* how many receives have returned the message m of q since it was pushed
Returns(q, m) == IF m \in DOMAIN lease[q] THEN lease[q][m].n ELSE 0

\* the lease of the message m of q, if it has one
LeaseOf(q, m) ==
    IF m # None /\ m[1].message_id \in DOMAIN lease[q]
    THEN Some(lease[q][m[1].message_id]) ELSE None

\* the dict pop_message returns, as an optional message with the field
\* names of ReceivedMessage
Popped(queue_name, d) ==
    IF d = EmptyFn THEN None ELSE Some(ReceivedMessage(queue_name, d))

\* a call is counted and the store is written back; the stream is not touched
Commit(st) ==
    /\ calls < MaxCalls
    /\ calls' = calls + 1
    /\ QUEUES' = st.QUEUES
    /\ zset' = st.zset
    /\ hash' = st.hash
    /\ UNCHANGED <<svars, mvars>>

\* the ids of q that the call removed from the index
Removed(st, st2, q) == (DOMAIN st.zset[q]) \ (DOMAIN st2.zset[q])

\* leases of ids no longer in the index are forgotten
TrimLease(l, st2, q) == [m \in (DOMAIN l) \cap (DOMAIN st2.zset[q]) |-> l[m]]

\* acked: the ids an ack removed from the pending entries; others: those of
\* them that were pending for another consumer than the caller; popped:
\* the ids a pop returned; rewound: the group was destroyed, or
\* set_group_offset_id moved its last-delivered id back; taken: for each id
\* an autoclaim has claimed, the time of the last one, the consumer it
\* was pending for and the consumer that claimed it
NoHistory == [acked |-> {}, others |-> {}, popped |-> {}, rewound |-> FALSE,
              taken |-> EmptyFn]

\* no stream, no group, no consumer
StreamEmpty ==
    /\ entries = 0
    /\ groups = [g \in Groups |-> None]
    /\ objs = {}
    /\ getting = [c \in Consumers |-> None]
    /\ seen = [g \in Groups |-> NoHistory]

\* a QueueManager that has handed out no queue
ManagerEmpty ==
    /\ memo = EmptyFn
    /\ wanted = {}

(***************************************************************************)
(* Actions: one per call, plus the passage of time.                        *)
(***************************************************************************)
Init ==
    /\ now = StartMs
    /\ usec = 0
    /\ QUEUES = {}
    /\ zset = [q \in QNames |-> EmptyFn]
    /\ hash = [q \in QNames |-> EmptyHash]
    /\ issued = {}
    /\ hist = [q \in QNames |-> ZeroHist]
    /\ lease = [q \in QNames |-> EmptyFn]
    /\ gone = [q \in QNames |-> {}]
    /\ erased = [q \in QNames |-> {}]
    /\ calls = 0
    /\ last = NoCall
    /\ popping = None
    /\ StreamEmpty
    /\ ManagerEmpty

Tick ==
    /\ now + TickMs <= MaxNow
    /\ now' = now + TickMs
    /\ usec' = 0
    /\ last' = [NoCall EXCEPT !.op = "tick"]
    /\ UNCHANGED <<popping, QUEUES, zset, hash, issued, hist, lease, gone, calls, erased>>
    /\ UNCHANGED <<svars, mvars>>

\* the clock advances by one microsecond within the millisecond
TickUs ==
    /\ usec < MaxUs
    /\ usec' = usec + 1
    /\ last' = [NoCall EXCEPT !.op = "tick"]
    /\ UNCHANGED <<popping, now, QUEUES, zset, hash, issued, hist, lease, gone, calls, erased>>
    /\ UNCHANGED <<svars, mvars>>

CreateQueue(q, vt, delay, max_size) ==
    LET r == create_queue(Store, q, vt, delay, max_size, now)
    IN  /\ Commit(r.st)
        /\ hist' = [hist EXCEPT ![q] = HistBase(Store, r.st, q)]
        /\ lease' = [lease EXCEPT ![q] = TrimLease(@, r.st, q)]
        /\ last' = [NoCall EXCEPT !.op = "create_queue", !.q = q, !.created = r.val,
                                  !.args = <<vt, delay, max_size>>, !.err = r.err]
        /\ UNCHANGED <<popping, now, usec, issued, gone, erased>>

DeleteQueue(q) ==
    LET r == delete_queue(Store, q)
    IN  /\ Commit(r.st)
        /\ hist' = [hist EXCEPT ![q] = HistBase(Store, r.st, q)]
        /\ lease' = [lease EXCEPT ![q] = TrimLease(@, r.st, q)]
        /\ erased' = [erased EXCEPT ![q] = @ \cup Removed(Store, r.st, q)]
        /\ last' = [NoCall EXCEPT !.op = "delete_queue", !.q = q]
        /\ UNCHANGED <<popping, now, usec, issued, gone>>

GetQueueInfo(q) ==
    LET r == get_queue_info(Store, q, now)
    IN  /\ Commit(r.st)
        /\ hist' = [hist EXCEPT ![q] = HistBase(Store, r.st, q)]
        /\ last' = [NoCall EXCEPT !.op = "get_queue_info", !.q = q,
                                  !.created = (q \notin QUEUES), !.info = Some(r.val)]
        /\ UNCHANGED <<popping, now, usec, issued, lease, gone, erased>>

SetQueueVisibilityTimeout(q, vt) ==
    /\ q \in QUEUES
    /\ Commit(set_queue_visibility_timeout(Store, q, vt, now).st)
    /\ last' = [NoCall EXCEPT !.op = "set_queue_visibility_timeout", !.q = q, !.val = vt]
    /\ UNCHANGED <<popping, now, usec, issued, hist, lease, gone, erased>>

SetQueueInitialDelay(q, delay) ==
    /\ q \in QUEUES
    /\ Commit(set_queue_initial_delay(Store, q, delay, now).st)
    /\ last' = [NoCall EXCEPT !.op = "set_queue_initial_delay", !.q = q, !.val = delay]
    /\ UNCHANGED <<popping, now, usec, issued, hist, lease, gone, erased>>

SetQueueMaxSize(q, max_size) ==
    /\ q \in QUEUES
    /\ Commit(set_queue_max_size(Store, q, max_size, now).st)
    /\ last' = [NoCall EXCEPT !.op = "set_queue_max_size", !.q = q, !.val = max_size]
    /\ UNCHANGED <<popping, now, usec, issued, hist, lease, gone, erased>>

\* the random suffix is any one not yet used at this instant: two ids
\* generated in the same microsecond differ (they collide with probability
\* 62^-22), in either order
PushMessage(q, message, delay) ==
    /\ \E rnd \in 1..NRand :
        /\ make_message_id(NowUs(now), rnd) \notin issued
        /\ LET r == push_message(Store, q, message, delay, None, None, now, rnd)
               base == HistBase(Store, r.st, q)
           IN  /\ Commit(r.st)
               /\ issued' = IF r.err = "" THEN issued \cup {r.val} ELSE issued
               /\ hist' = [hist EXCEPT ![q] =
                              IF r.err = "" THEN [base EXCEPT !.pushes = @ + 1] ELSE base]
               /\ last' = [NoCall EXCEPT !.op = "push_message", !.q = q,
                                         !.id = IF r.err = "" THEN Some(r.val) ELSE None,
                                         !.err = r.err, !.delay = delay,
                                         !.body = message,
                                         !.created = (q \notin QUEUES)]
    /\ UNCHANGED <<popping, now, usec, lease, gone, erased>>

\* the sequences of n distinct random suffixes not yet used at this instant
FreshRnds(n) ==
    {rs \in [1..n -> 1..NRand] :
        /\ \A i \in 1..n : make_message_id(NowUs(now), rs[i]) \notin issued
        /\ \A i, j \in 1..n : i # j => rs[i] # rs[j]}

PushMany(q, messages, delay) ==
    /\ \E rnds \in FreshRnds(Len(messages)) :
        LET r == push_many(Store, q, messages, delay, None, now, rnds)
            base == HistBase(Store, r.st, q)
            new == (DOMAIN r.st.zset[q]) \ (DOMAIN zset[q])
        IN  /\ Commit(r.st)
            /\ issued' = issued \cup new
            /\ hist' = [hist EXCEPT ![q] = [base EXCEPT !.pushes = @ + Cardinality(new)]]
            /\ last' = [NoCall EXCEPT !.op = "push_many", !.q = q, !.err = r.err,
                                      !.delay = delay, !.ids = r.ids,
                                      !.args = messages, !.wrote = new]
    /\ UNCHANGED <<popping, now, usec, lease, gone, erased>>

GetMessage(q, vt) ==
    /\ LET r == get_message(Store, q, vt, now)
           eff == IF vt # None THEN vt[1] ELSE Cfg(Store, q, "vt")
       IN  /\ Commit(r.st)
           /\ hist' = [hist EXCEPT ![q].recvs = IF r.msg = None THEN @ ELSE @ + 1]
           /\ lease' = [lease EXCEPT ![q] =
                           IF r.msg = None THEN @
                           ELSE Put(@, r.msg[1].message_id,
                                    [t |-> now, v |-> eff,
                                     rc |-> r.msg[1].retrieval_count,
                                     fr |-> r.msg[1].first_retrieved,
                                     n |-> Returns(q, r.msg[1].message_id) + 1])]
           /\ last' = [NoCall EXCEPT !.op = "get_message", !.q = q, !.vt = vt, !.msg = r.msg,
                                     !.prev = LeaseOf(q, r.msg)]
    /\ UNCHANGED <<popping, now, usec, issued, gone, erased>>

DeleteMessage(q, id) ==
    LET r == delete_message(Store, q, id)
        rem == Removed(Store, r.st, q)
    IN  /\ Commit(r.st)
        /\ hist' = [hist EXCEPT ![q].deletes = @ + Cardinality(rem)]
        /\ lease' = [lease EXCEPT ![q] = TrimLease(@, r.st, q)]
        /\ gone' = [gone EXCEPT ![q] = @ \cup rem]
        /\ last' = [NoCall EXCEPT !.op = "delete_message", !.q = q, !.id = Some(id),
                                  !.val = Cardinality(rem)]
        /\ UNCHANGED <<popping, now, usec, issued, erased>>

PopMessage(q) ==
    /\ LET r == pop_message(Store, q, now)
           msg == Popped(q, r.val)
           rem == Removed(Store, r.st, q)
       IN  /\ Commit(r.st)
           /\ hist' = [hist EXCEPT ![q].pops = @ + Cardinality(rem),
                                   ![q].recvs = IF msg = None THEN @ ELSE @ + 1]
           /\ lease' = [lease EXCEPT ![q] = TrimLease(@, r.st, q)]
           /\ gone' = [gone EXCEPT ![q] = @ \cup rem]
           /\ last' = [NoCall EXCEPT !.op = "pop_message", !.q = q, !.msg = msg,
                                     !.prev = LeaseOf(q, msg)]
    /\ UNCHANGED <<popping, now, usec, issued, erased>>

Next ==
    \/ Tick
    \/ TickUs
    \/ \E q \in Active, c \in CreateArgs : CreateQueue(q, c[1], c[2], c[3])
    \/ \E q \in Active : DeleteQueue(q)
    \/ \E q \in Active : GetQueueInfo(q)
    \/ \E q \in Active, vt \in SetVt : SetQueueVisibilityTimeout(q, vt)
    \/ \E q \in Active, delay \in SetDelay : SetQueueInitialDelay(q, delay)
    \/ \E q \in Active, ms \in SetMaxSize : SetQueueMaxSize(q, ms)
    \/ \E q \in Active, b \in Bodies, delay \in Opt(DelayValues) :
          PushMessage(q, b, delay)
    \/ \E q \in Active, ms \in Batches : PushMany(q, ms, None)
    \/ \E q \in Active, vt \in Opt(VtValues) : GetMessage(q, vt)
    \/ \E q \in Active, id \in issued \cup {make_message_id(0, 0)} : DeleteMessage(q, id)
    \/ \E q \in Active : PopMessage(q)

Spec == Init /\ [][Next]_vars

(***************************************************************************)
(* The clients of the Queue class (psmq/queue.py), next to a client that   *)
(* pushes raw bytes with push_message.                                     *)
(***************************************************************************)
QueueNew(q, default_config) ==
    LET r == Queue_init(Store, q, default_config, now)
    IN  /\ Commit(r.st)
        /\ hist' = [hist EXCEPT ![q] = HistBase(Store, r.st, q)]
        /\ last' = [NoCall EXCEPT !.op = "Queue", !.q = q, !.err = r.err, !.ch = r.ch,
                                  !.info = r.info, !.pre = Some(Store),
                                  !.created = (r.err = "" /\ q \notin QUEUES)]
        /\ UNCHANGED <<now, usec, issued, lease, gone, erased, popping>>

QueueReadMetadata(q) ==
    LET r == Queue_metadata(Store, q, now)
    IN  /\ Commit(r.st)
        /\ hist' = [hist EXCEPT ![q] = HistBase(Store, r.st, q)]
        /\ last' = [NoCall EXCEPT !.op = "Queue.metadata", !.q = q,
                                  !.info = Some(r.val), !.pre = Some(Store)]
        /\ UNCHANGED <<now, usec, issued, lease, gone, erased, popping>>

QueuePush(q, message, delay, ttl) ==
    /\ \E rnd \in 1..NRand :
        /\ make_message_id(NowUs(now), rnd) \notin issued
        /\ LET r == Queue_push(Store, q, message, delay, ttl, now, rnd)
               base == HistBase(Store, r.st, q)
           IN  /\ Commit(r.st)
               /\ issued' = IF r.err = "" THEN issued \cup {r.val} ELSE issued
               /\ hist' = [hist EXCEPT ![q] =
                              IF r.err = "" THEN [base EXCEPT !.pushes = @ + 1] ELSE base]
               /\ last' = [NoCall EXCEPT !.op = "Queue.push", !.q = q,
                                         !.id = IF r.err = "" THEN Some(r.val) ELSE None,
                                         !.err = r.err, !.delay = delay, !.ttl = ttl,
                                         !.pre = Some(Store)]
    /\ UNCHANGED <<now, usec, lease, gone, erased, popping>>

\* what a receive of the Queue class leaves in the history
Receive(q, vt, r) ==
    LET eff == IF vt # None THEN vt[1] ELSE Cfg(Store, q, "vt")
    IN  /\ Commit(r.st)
        /\ hist' = [hist EXCEPT ![q].recvs = IF r.recv = None THEN @ ELSE @ + 1]
        /\ lease' = [lease EXCEPT ![q] =
                        IF r.recv = None THEN @
                        ELSE Put(@, r.recv[1].message_id,
                                 [t |-> now, v |-> eff,
                                  rc |-> r.recv[1].retrieval_count,
                                  fr |-> r.recv[1].first_retrieved,
                                  n |-> Returns(q, r.recv[1].message_id) + 1])]

QueueGet(q, vt, raise_on_empty) ==
    LET r == Queue_get(Store, q, vt, raise_on_empty, now)
    IN  /\ Receive(q, vt, r)
        /\ last' = [NoCall EXCEPT !.op = "Queue.get", !.q = q, !.vt = vt,
                                  !.roe = raise_on_empty, !.msg = r.msg,
                                  !.recv = r.recv, !.err = r.err,
                                  !.prev = LeaseOf(q, r.recv), !.pre = Some(Store)]
        /\ UNCHANGED <<now, usec, issued, gone, erased, popping>>

QueueDelete(q, id) ==
    LET r == Queue_delete(Store, q, id)
        rem == Removed(Store, r.st, q)
    IN  /\ Commit(r.st)
        /\ hist' = [hist EXCEPT ![q].deletes = @ + Cardinality(rem)]
        /\ lease' = [lease EXCEPT ![q] = TrimLease(@, r.st, q)]
        /\ gone' = [gone EXCEPT ![q] = @ \cup rem]
        /\ last' = [NoCall EXCEPT !.op = "Queue.delete", !.q = q, !.id = Some(id),
                                  !.val = Cardinality(rem), !.pre = Some(Store)]
        /\ UNCHANGED <<now, usec, issued, erased, popping>>

\* Queue.pop, first half: msg = self.get(raise_on_empty=raise_on_empty)
QueuePopGet(q, raise_on_empty) ==
    LET r == Queue_get(Store, q, None, raise_on_empty, now)
    IN  /\ popping = None
        /\ Receive(q, None, r)
        /\ popping' = r.msg
        /\ last' = [NoCall EXCEPT !.op = "Queue.pop.get", !.q = q,
                                  !.roe = raise_on_empty, !.msg = r.msg,
                                  !.recv = r.recv, !.err = r.err,
                                  !.prev = LeaseOf(q, r.recv), !.pre = Some(Store)]
        /\ UNCHANGED <<now, usec, issued, gone, erased>>

\* Queue.pop, second half: self.delete(msg.message_id); return msg
QueuePopDelete ==
    /\ popping # None
    /\ LET q == popping[1].queue_name
           r == Queue_delete(Store, q, popping[1].message_id)
           rem == Removed(Store, r.st, q)
       IN  /\ Commit(r.st)
           /\ hist' = [hist EXCEPT ![q].deletes = @ + Cardinality(rem)]
           /\ lease' = [lease EXCEPT ![q] = TrimLease(@, r.st, q)]
           /\ gone' = [gone EXCEPT ![q] = @ \cup rem]
           /\ last' = [NoCall EXCEPT !.op = "Queue.pop", !.q = q, !.msg = popping,
                                     !.id = Some(popping[1].message_id),
                                     !.val = Cardinality(rem), !.pre = Some(Store)]
    /\ popping' = None
    /\ UNCHANGED <<now, usec, issued, erased>>

QueueNext ==
    \/ Tick
    \/ TickUs
    \/ \E q \in Active, dc \in Opt(CreateArgs) : QueueNew(q, dc)
    \/ \E q \in Active : QueueReadMetadata(q)
    \/ \E q \in Active, v \in PushValues, ttl \in Opt(TtlValues) :
          QueuePush(q, v, None, ttl)
    \/ \E q \in Active, b \in Bodies : PushMessage(q, b, None)
    \/ \E q \in Active, vt \in Opt(VtValues), roe \in BOOLEAN : QueueGet(q, vt, roe)
    \/ \E q \in Active, id \in issued \cup {make_message_id(0, 0)} : QueueDelete(q, id)
    \/ \E q \in Active, roe \in BOOLEAN : QueuePopGet(q, roe)
    \/ QueuePopDelete

QueueSpec == Init /\ [][QueueNext]_vars

(***************************************************************************)
(* Queue.pop next to the receives of other callers, on a queue that holds  *)
(* a message.                                                              *)
(***************************************************************************)
\* the backend without any queue
NoQueues == [QUEUES |-> {}, zset |-> [q \in QNames |-> EmptyFn],
             hash |-> [q \in QNames |-> EmptyHash]]

\* a Queue was constructed for q with the visibility timeout vt and one
\* message was pushed to it
Stocked(q, vt, t) ==
    LET made == Queue_init(NoQueues, q, Some(<<vt, DEFAULT_DELAY, DEFAULT_MAX_SIZE>>), t)
    IN  Queue_push(made.st, q, IntValue(1), None, None, t, 1)

PopInit ==
    /\ now = StartMs
    /\ usec = 0
    /\ \E q \in Active, vt \in VtValues :
        \E r \in {Stocked(q, vt, StartMs)} :
            /\ QUEUES = r.st.QUEUES
            /\ zset = r.st.zset
            /\ hash = r.st.hash
            /\ issued = {r.val}
            /\ hist = [x \in QNames |->
                          IF x = q THEN [ZeroHist EXCEPT !.pushes = 1] ELSE ZeroHist]
    /\ lease = [q \in QNames |-> EmptyFn]
    /\ gone = [q \in QNames |-> {}]
    /\ erased = [q \in QNames |-> {}]
    /\ calls = 0
    /\ last = NoCall
    /\ popping = None
    /\ StreamEmpty
    /\ ManagerEmpty

PopNext ==
    \/ Tick
    \/ TickUs
    \/ \E q \in Active, vt \in Opt(VtValues), roe \in BOOLEAN : QueueGet(q, vt, roe)
    \/ \E q \in Active, roe \in BOOLEAN : QueuePopGet(q, roe)
    \/ QueuePopDelete

PopSpec == PopInit /\ [][PopNext]_vars

(***************************************************************************)
(* The clients that create queues under valid and invalid names.           *)
(***************************************************************************)
AllNames == QNames \cup Names

NameInit ==
    /\ now = StartMs
    /\ usec = 0
    /\ QUEUES = {}
    /\ zset = [q \in AllNames |-> EmptyFn]
    /\ hash = [q \in AllNames |-> EmptyHash]
    /\ issued = {}
    /\ hist = [q \in AllNames |-> ZeroHist]
    /\ lease = [q \in AllNames |-> EmptyFn]
    /\ gone = [q \in AllNames |-> {}]
    /\ erased = [q \in AllNames |-> {}]
    /\ calls = 0
    /\ last = NoCall
    /\ popping = None
    /\ StreamEmpty
    /\ ManagerEmpty

NameNext ==
    \/ Tick
    \/ \E q \in Names, c \in CreateArgs : CreateQueue(q, c[1], c[2], c[3])
    \/ \E q \in Names, dc \in Opt(CreateArgs) : QueueNew(q, dc)
    \/ \E q \in Names : DeleteQueue(q)

NameSpec == NameInit /\ [][NameNext]_vars

(***************************************************************************)
(* The clients of one stream (psmq/stream.py): publishers, the consumers   *)
(* of one group, and the calls that manage the group.                      *)
(***************************************************************************)
\* op, c, g, count, ids, id: the call and its arguments; ret: the ids of
\* the messages it returned; claimed, fresh: the part of ret that came from
\* the autoclaim and from the read; idle, longer: the ids that had been
\* pending for at least, and for longer than, max_pending_time when the
\* autoclaim ran; pre, was: the groups and the history before the call
NoStreamCall == [op |-> "init", c |-> "", g |-> "", count |-> 0, ids |-> <<>>, id |-> 0,
                 ret |-> <<>>, claimed |-> <<>>, fresh |-> <<>>, idle |-> {}, longer |-> {},
                 err |-> "", pre |-> None, was |-> None]

\* every Consumer of the model is made for this group
GroupOf(c) == "g"

\* the pending ids of g that have been idle for at least max_pending_time
IdlePending(g) ==
    IF groups[g] = None THEN {}
    ELSE {id \in DOMAIN groups[g][1].pel :
             now - groups[g][1].pel[id].time >= max_pending_time}

\* the pending ids of g that have been idle for longer than max_pending_time
LongPending(g) ==
    IF groups[g] = None THEN {}
    ELSE {id \in DOMAIN groups[g][1].pel :
             now - groups[g][1].pel[id].time > max_pending_time}

\* a call is counted and the stream is written back; the queues are not touched
StreamCommit(s) ==
    /\ calls < MaxStreamCalls
    /\ calls' = calls + 1
    /\ entries' = s.entries
    /\ groups' = s.groups
    /\ UNCHANGED <<now, usec, qvars, mvars>>

\* the history of g after consumer c claimed the ids of the list claimed
Took(g, c, claimed) ==
    [seen EXCEPT ![g].taken =
        [id \in (DOMAIN @) \cup Range(claimed) |->
            IF id \in Range(claimed)
            THEN [at |-> now, from |-> groups[g][1].pel[id].owner, by |-> c]
            ELSE @[id]]]

StreamCall(op, g, c) ==
    [NoStreamCall EXCEPT !.op = op, !.g = g, !.c = c,
                         !.pre = Some(groups), !.was = Some(seen)]

StreamInit ==
    /\ now = StartMs
    /\ usec = 0
    /\ QUEUES = {}
    /\ zset = [q \in QNames |-> EmptyFn]
    /\ hash = [q \in QNames |-> EmptyHash]
    /\ issued = {}
    /\ hist = [q \in QNames |-> ZeroHist]
    /\ lease = [q \in QNames |-> EmptyFn]
    /\ gone = [q \in QNames |-> {}]
    /\ erased = [q \in QNames |-> {}]
    /\ calls = 0
    /\ last = NoStreamCall
    /\ popping = None
    /\ StreamEmpty
    /\ ManagerEmpty

StreamTick ==
    /\ now + StreamTickMs <= StreamMaxNow
    /\ now' = now + StreamTickMs
    /\ last' = [NoStreamCall EXCEPT !.op = "tick"]
    /\ UNCHANGED <<usec, qvars, calls, svars, mvars>>

Publish ==
    LET r == publish(StreamStore)
    IN  /\ entries < MaxEntries
        /\ StreamCommit(r.s)
        /\ last' = [StreamCall("publish", "", "") EXCEPT !.id = r.val]
        /\ UNCHANGED <<objs, getting, seen>>

CreateConsumerGroup(g, from_start) ==
    LET r == create_consumer_group(StreamStore, g, from_start)
    IN  /\ StreamCommit(r.s)
        /\ last' = [StreamCall("create_consumer_group", g, "") EXCEPT
                        !.id = IF from_start THEN 0 ELSE Dollar, !.err = r.err]
        /\ UNCHANGED <<objs, getting, seen>>

CreateConsumer(g, c) ==
    LET r == create_consumer(StreamStore, g, c)
    IN  /\ StreamCommit(r.s)
        /\ last' = [StreamCall("create_consumer", g, c) EXCEPT !.err = r.err]
        /\ UNCHANGED <<objs, getting, seen>>

DeleteConsumerGroup(g) ==
    LET r == delete_consumer_group(StreamStore, g)
    IN  /\ StreamCommit(r.s)
        /\ seen' = [seen EXCEPT ![g].rewound = @ \/ groups[g] # None]
        /\ last' = [StreamCall("delete_consumer_group", g, "") EXCEPT !.err = r.err]
        /\ UNCHANGED <<objs, getting>>

SetGroupOffsetId(g, message_id) ==
    LET r == set_group_offset_id(StreamStore, g, message_id)
    IN  /\ StreamCommit(r.s)
        /\ seen' = [seen EXCEPT ![g].rewound =
                        @ \/ (groups[g] # None /\ r.s.groups[g][1].last < groups[g][1].last)]
        /\ last' = [StreamCall("set_group_offset_id", g, "") EXCEPT
                        !.id = message_id, !.err = r.err]
        /\ UNCHANGED <<objs, getting>>

\* Consumer(connection, stream_name, group_name, consumer_name)
ConsumerNew(c) ==
    LET r == Consumer_setup(StreamStore, GroupOf(c), c)
    IN  /\ StreamCommit(r.s)
        /\ objs' = objs \cup {c}
        /\ last' = [StreamCall("Consumer", GroupOf(c), c) EXCEPT !.err = r.err]
        /\ UNCHANGED <<getting, seen>>

\* Consumer.get, first command: claimed_msgs = self.autoclaim(count); the
\* call returns them when there are count of them, and fails when the
\* command fails
GetClaim(c, count) ==
    LET g == GroupOf(c)
        r == autoclaim(StreamStore, g, c, count, None, now)
        done == r.err # "" \/ Len(r.val) = count
    IN  /\ c \in objs
        /\ getting[c] = None
        /\ StreamCommit(r.s)
        /\ getting' = [getting EXCEPT ![c] =
                           IF done THEN None
                           ELSE Some([count |-> count, claimed_msgs |-> r.val,
                                      idle |-> IdlePending(g),
                                      longer |-> LongPending(g)])]
        /\ last' = [StreamCall(IF done THEN "get" ELSE "get.autoclaim", g, c) EXCEPT
                        !.count = count, !.claimed = r.val, !.ret = r.val,
                        !.idle = IdlePending(g), !.longer = LongPending(g),
                        !.err = r.err]
        /\ seen' = Took(g, c, r.val)
        /\ UNCHANGED objs

\* Consumer.get, second command: the read of the remainder, and the return
GetRead(c) ==
    LET g == GroupOf(c)
        mine == getting[c][1]
        r == get_read(StreamStore, g, c, mine.count, mine.claimed_msgs, now)
    IN  /\ getting[c] # None
        /\ StreamCommit(r.s)
        /\ getting' = [getting EXCEPT ![c] = None]
        /\ last' = [StreamCall("get", g, c) EXCEPT
                        !.count = mine.count, !.claimed = mine.claimed_msgs,
                        !.ret = r.val,
                        !.fresh = SubSeq(r.val, Len(mine.claimed_msgs) + 1, Len(r.val)),
                        !.idle = mine.idle, !.longer = mine.longer, !.err = r.err]
        /\ UNCHANGED <<objs, seen>>

Autoclaim(c, count) ==
    LET g == GroupOf(c)
        r == autoclaim(StreamStore, g, c, count, None, now)
    IN  /\ c \in objs
        /\ StreamCommit(r.s)
        /\ last' = [StreamCall("autoclaim", g, c) EXCEPT
                        !.count = count, !.claimed = r.val, !.ret = r.val,
                        !.idle = IdlePending(g), !.longer = LongPending(g),
                        !.err = r.err]
        /\ seen' = Took(g, c, r.val)
        /\ UNCHANGED <<objs, getting>>

Ack(c, message_ids) ==
    LET g == GroupOf(c)
        r == ack(StreamStore, g, message_ids)
        hit == IF groups[g] = None THEN {}
               ELSE Range(message_ids) \cap DOMAIN groups[g][1].pel
    IN  /\ c \in objs
        /\ StreamCommit(r.s)
        /\ seen' = [seen EXCEPT ![g].acked = @ \cup hit,
                                ![g].others = @ \cup {id \in hit :
                                                        groups[g][1].pel[id].owner # c}]
        /\ last' = [StreamCall("ack", g, c) EXCEPT !.ids = message_ids, !.err = r.err]
        /\ UNCHANGED <<objs, getting>>

Pop(c, count) ==
    LET g == GroupOf(c)
        r == pop(StreamStore, g, c, count, now)
    IN  /\ c \in objs
        /\ StreamCommit(r.s)
        /\ seen' = [seen EXCEPT ![g].popped = @ \cup Range(r.val)]
        /\ last' = [StreamCall("pop", g, c) EXCEPT
                        !.count = count, !.ret = r.val, !.fresh = r.val, !.err = r.err]
        /\ UNCHANGED <<objs, getting>>

StreamNext ==
    \/ StreamTick
    \/ Publish
    \/ \E g \in Groups, from_start \in BOOLEAN : CreateConsumerGroup(g, from_start)
    \/ \E g \in Groups, c \in Consumers : CreateConsumer(g, c)
    \/ \E g \in Groups : DeleteConsumerGroup(g)
    \/ \E g \in Groups, id \in 0..entries : SetGroupOffsetId(g, id)
    \/ \E c \in Consumers : ConsumerNew(c)
    \/ \E c \in Consumers, count \in Counts : GetClaim(c, count)
    \/ \E c \in Consumers : GetRead(c)
    \/ \E c \in Consumers, count \in Counts : Autoclaim(c, count)
    \/ \E c \in Consumers, ids \in AckArgs : Ack(c, ids)
    \/ \E c \in Consumers, count \in Counts : Pop(c, count)

StreamSpec == StreamInit /\ [][StreamNext]_vars

(***************************************************************************)
(* The consumers of the group next to calls of reset_group_offset.         *)
(***************************************************************************)
ResetGroupOffset(g) ==
    LET r == reset_group_offset(StreamStore, g)
    IN  /\ StreamCommit(r.s)
        /\ last' = [StreamCall("reset_group_offset", g, "") EXCEPT !.err = r.err]
        /\ UNCHANGED <<objs, getting, seen>>

ResetNext ==
    \/ StreamTick
    \/ Publish
    \/ \E c \in Consumers : ConsumerNew(c)
    \/ \E c \in Consumers, count \in Counts : GetClaim(c, count)
    \/ \E c \in Consumers : GetRead(c)
    \/ \E g \in Groups : ResetGroupOffset(g)

ResetSpec == StreamInit /\ [][ResetNext]_vars

(***************************************************************************)
(* The consumers of one group that call get for ever.  Only idle times     *)
(* count for the stream commands, so the clock is kept at LiveNow and a    *)
(* step of the clock, of LiveTickMs, moves the delivery times back         *)
(* instead, down to an idle time of MaxIdle.  The calls are not counted    *)
(* and leave no history but the last call and the entries it named or      *)
(* returned.                                                               *)
(***************************************************************************)
MaxIdle == LiveTickMs
LiveNow == StartMs + MaxIdle

\* both consumers have been constructed
LiveInit ==
    /\ now = LiveNow
    /\ usec = 0
    /\ QUEUES = {}
    /\ zset = [q \in QNames |-> EmptyFn]
    /\ hash = [q \in QNames |-> EmptyHash]
    /\ issued = {}
    /\ hist = [q \in QNames |-> ZeroHist]
    /\ lease = [q \in QNames |-> EmptyFn]
    /\ gone = [q \in QNames |-> {}]
    /\ erased = [q \in QNames |-> {}]
    /\ calls = 0
    /\ last = NoStreamCall
    /\ popping = None
    /\ entries = 0
    /\ groups = [g \in Groups |->
                    Some([last |-> 0, pel |-> EmptyFn, consumers |-> Consumers])]
    /\ objs = Consumers
    /\ getting = [c \in Consumers |-> None]
    /\ seen = [g \in Groups |-> NoHistory]
    /\ ManagerEmpty

Older(t) == IF t - LiveTickMs < now - MaxIdle THEN now - MaxIdle ELSE t - LiveTickMs

LiveTick ==
    /\ \E g \in Groups : groups[g] # None /\
          \E id \in DOMAIN groups[g][1].pel : now - groups[g][1].pel[id].time < MaxIdle
    /\ groups' = [g \in Groups |->
                     IF groups[g] = None THEN None
                     ELSE Some([groups[g][1] EXCEPT !.pel =
                                   [id \in DOMAIN @ |-> [@[id] EXCEPT !.time = Older(@)]]])]
    /\ last' = [NoStreamCall EXCEPT !.op = "tick"]
    /\ UNCHANGED <<now, usec, qvars, calls, entries, objs, getting, seen, mvars>>

\* the stream is written back
LiveCommit(s) ==
    /\ entries' = s.entries
    /\ groups' = s.groups
    /\ UNCHANGED <<now, usec, qvars, calls, seen, mvars>>

LiveCall(op) == [NoStreamCall EXCEPT !.op = op]

LivePublish ==
    \E r \in {publish(StreamStore)} :
        /\ entries < MaxEntries
        /\ LiveCommit(r.s)
        /\ last' = [LiveCall("publish") EXCEPT !.id = r.val]
        /\ UNCHANGED <<objs, getting>>

LiveDeleteConsumerGroup(g) ==
    \E r \in {delete_consumer_group(StreamStore, g)} :
        /\ LiveCommit(r.s)
        /\ last' = [LiveCall("delete_consumer_group") EXCEPT !.err = r.err]
        /\ UNCHANGED <<objs, getting>>

LiveSetGroupOffsetId(g, message_id) ==
    \E r \in {set_group_offset_id(StreamStore, g, message_id)} :
        /\ LiveCommit(r.s)
        /\ last' = [LiveCall("set_group_offset_id") EXCEPT
                        !.id = message_id, !.err = r.err]
        /\ UNCHANGED <<objs, getting>>

LiveConsumerNew(c) ==
    \E r \in {Consumer_setup(StreamStore, GroupOf(c), c)} :
        /\ LiveCommit(r.s)
        /\ last' = [LiveCall("Consumer") EXCEPT !.err = r.err]
        /\ UNCHANGED <<objs, getting>>

\* Consumer.get, first command
LiveGetClaim(c, count) ==
    /\ getting[c] = None
    /\ \E r \in {autoclaim(StreamStore, GroupOf(c), c, count, None, now)} :
        \E done \in {r.err # "" \/ Len(r.val) = count} :
            /\ LiveCommit(r.s)
            /\ getting' = [getting EXCEPT ![c] =
                               IF done THEN None
                               ELSE Some([count |-> count, claimed_msgs |-> r.val,
                                          idle |-> {}, longer |-> {}])]
            /\ last' = [LiveCall(IF done THEN "get" ELSE "get.autoclaim") EXCEPT
                            !.claimed = r.val, !.ret = r.val, !.err = r.err]
            /\ UNCHANGED objs

\* Consumer.get, second command
LiveGetRead(c) ==
    /\ getting[c] # None
    /\ \E mine \in {getting[c][1]} :
        \E r \in {get_read(StreamStore, GroupOf(c), c, mine.count,
                            mine.claimed_msgs, now)} :
            /\ LiveCommit(r.s)
            /\ getting' = [getting EXCEPT ![c] = None]
            /\ last' = [LiveCall("get") EXCEPT
                            !.claimed = mine.claimed_msgs, !.ret = r.val,
                            !.err = r.err]
            /\ UNCHANGED objs

LiveAck(c, message_ids) ==
    \E r \in {ack(StreamStore, GroupOf(c), message_ids)} :
        /\ LiveCommit(r.s)
        /\ last' = [LiveCall("ack") EXCEPT
                        !.ids = message_ids, !.err = r.err]
        /\ UNCHANGED <<objs, getting>>

LivePop(c, count) ==
    \E r \in {pop(StreamStore, GroupOf(c), c, count, now)} :
        /\ LiveCommit(r.s)
        /\ last' = [LiveCall("pop") EXCEPT !.ret = r.val, !.err = r.err]
        /\ UNCHANGED <<objs, getting>>

LiveNext ==
    \/ LiveTick
    \/ LivePublish
    \/ \E g \in Groups : LiveDeleteConsumerGroup(g)
    \/ \E g \in Groups, id \in 0..entries : LiveSetGroupOffsetId(g, id)
    \/ \E c \in Consumers : LiveConsumerNew(c)
    \/ \E c \in Consumers, count \in Counts : LiveGetClaim(c, count)
    \/ \E c \in Consumers : LiveGetRead(c)
    \/ \E c \in Consumers, ids \in AckArgs : LiveAck(c, ids)
    \/ \E c \in Consumers, count \in Counts : LivePop(c, count)

\* the first count unread entries of the group g in the groups grps
NextUnread(grps, g, count) ==
    IF grps[g] = None THEN {}
    ELSE Range(Take(Ascending({id \in 1..entries : id > grps[g][1].last}), count))

\* a get begins that will hand out the entry id: it claims the entry, or the
\* entry is among the unread entries its read is going to take
Hands(id) ==
    \E c \in Consumers, count \in Counts :
        /\ LiveGetClaim(c, count)
        /\ \/ id \in Range(last'.claimed)
           \/ /\ getting'[c] # None
              /\ id \in NextUnread(groups', GroupOf(c), count - Len(last'.claimed))

\* some consumer begins a get
Gets == \E c \in Consumers, count \in Counts : LiveGetClaim(c, count)

\* the consumers keep calling get: every get that has begun goes on to its
\* read, a get begins again and again, and the gets that would hand out an
\* entry do not all come at moments when other entries are claimed in its
\* place
LiveFair ==
    /\ \A c \in Consumers : WF_vars(LiveGetRead(c))
    /\ WF_vars(Gets)
    /\ \A id \in 1..MaxEntries : SF_vars(Hands(id))

LiveSpec == LiveInit /\ [][LiveNext]_vars /\ LiveFair

(***************************************************************************)
(* The keys of the backend.  The names are the members of the set under    *)
(* the key QUEUES, the index of the queue q is the sorted set under the    *)
(* key q and its map is the hash under the key q:Q.  For the queue named   *)
(* QUEUES the index and the set of names are one key: a sorted-set command *)
(* on a key that holds a set fails with WRONGTYPE, and deleting the key    *)
(* deletes whatever it holds.                                              *)
(***************************************************************************)
\* the names the clients of KeySpec use
KeyNames == {"q1", QUEUE_SET_KEY}

\* the key of the index of q holds the set of names
IndexIsNameSet(st, q) == q = QUEUE_SET_KEY /\ st.QUEUES # {}

\* delete_queue on the keys: the keys q:Q and q are deleted and q is removed
\* from the set; nothing is done for a name that is not in the set
keys_delete_queue(st, q) ==
    LET r == fcall_delete_queue(st, q)
    IN  IF q = QUEUE_SET_KEY /\ q \in st.QUEUES THEN Reply([r.st EXCEPT !.QUEUES = {}], 0, <<>>, "")
        ELSE r

\* push_message on the keys: the queue is created if missing, then the
\* entry is added to the index
keys_push_message(st, q, message, delay, metadata, t, r) ==
    IF IndexIsNameSet(EnsureQueue(st, q, t), q)
    THEN Reply(EnsureQueue(st, q, t), 0, <<>>, "WRONGTYPE")
    ELSE fcall_push_message(st, q, message, delay, metadata, t, r)

\* get_message on the keys: the index is read
keys_get_message(st, q, vt, t) ==
    IF q \in st.QUEUES /\ IndexIsNameSet(st, q)
    THEN Reply(st, 0, <<>>, "WRONGTYPE")
    ELSE fcall_get_message(st, q, vt, t)

KeyInit ==
    /\ now = StartMs
    /\ usec = 0
    /\ QUEUES = {}
    /\ zset = [q \in KeyNames |-> EmptyFn]
    /\ hash = [q \in KeyNames |-> EmptyHash]
    /\ issued = {}
    /\ hist = [q \in QNames |-> ZeroHist]
    /\ lease = [q \in QNames |-> EmptyFn]
    /\ gone = [q \in QNames |-> {}]
    /\ erased = [q \in QNames |-> {}]
    /\ calls = 0
    /\ last = NoCall
    /\ popping = None
    /\ StreamEmpty
    /\ ManagerEmpty

\* the calls of KeySpec keep no history
KeyCommit(st) ==
    /\ Commit(st)
    /\ UNCHANGED <<now, usec, hist, lease, gone, erased, popping>>

\* queue_ops.create_queue
KeyCreateQueue(q, vt, delay, max_size) ==
    \E r \in {create_queue(Store, q, vt, delay, max_size, now)} :
        /\ KeyCommit(r.st)
        /\ last' = [NoCall EXCEPT !.op = "create_queue", !.q = q, !.created = r.val,
                                  !.args = <<vt, delay, max_size>>, !.err = r.err]
        /\ UNCHANGED issued

\* queue_ops.delete_queue
KeyDeleteQueue(q) ==
    \E r \in {keys_delete_queue(Store, q)} :
        /\ KeyCommit(r.st)
        /\ last' = [NoCall EXCEPT !.op = "delete_queue", !.q = q,
                                  !.pre = Some(Store)]
        /\ UNCHANGED issued

\* queue_ops.push_message without delay, ttl and metadata
KeyPushMessage(q, message) ==
    \E rnd \in 1..NRand :
        /\ make_message_id(NowUs(now), rnd) \notin issued
        /\ \E r \in {keys_push_message(Store, q, message, Some(-1), packb(EmptyFn),
                                       now, rnd)} :
            /\ KeyCommit(r.st)
            /\ issued' = IF r.err = "" THEN issued \cup {r.val} ELSE issued
            /\ last' = [NoCall EXCEPT !.op = "push_message", !.q = q,
                                      !.id = IF r.err = "" THEN Some(r.val) ELSE None,
                                      !.err = r.err, !.body = message]

\* queue_ops.get_message without a visibility timeout
KeyGetMessage(q) ==
    \E r \in {keys_get_message(Store, q, None, now)} :
        /\ KeyCommit(r.st)
        /\ last' = [NoCall EXCEPT !.op = "get_message", !.q = q, !.err = r.err,
                                  !.msg = Received(q, r).msg]
        /\ UNCHANGED issued

KeyNext ==
    \/ Tick
    \/ \E q \in KeyNames, c \in CreateArgs : KeyCreateQueue(q, c[1], c[2], c[3])
    \/ \E q \in KeyNames : KeyDeleteQueue(q)
    \/ \E q \in KeyNames, b \in Bodies : KeyPushMessage(q, b)
    \/ \E q \in KeyNames : KeyGetMessage(q)

KeySpec == KeyInit /\ [][KeyNext]_vars

(***************************************************************************)
(* The QueueManager: get_queue behind functools.cache, delete_queue and    *)
(* queues.  The connection is taken to pass fcall and delete_queue on to   *)
(* the backend.                                                            *)
(***************************************************************************)
\* RedisLiteConnection.create_queue: the four arguments are always sent
Connection_create_queue(st, name, vt, delay, max_size, t) ==
    LET r == fcall_create_queue(st, name, Some(vt), Some(delay), Some(max_size), t)
    IN  [st |-> r.st, val |-> (r.val # 0)]

\* the arguments a call of get_queue is remembered by
CacheKey(name, default_config) == <<name, default_config>>

\* the configurations get_queue is called with
ManagerConfigs == Opt(CreateArgs)

\* QueueManager.get_queue: a call with arguments seen before returns the
\* handle made then and does nothing else; otherwise the connection creates
\* the queue, with the configuration given or the defaults, a Queue is
\* constructed without a default configuration, and the handle is remembered
Manager_get_queue(st, cache, name, default_config, t) ==
    LET key == CacheKey(name, default_config)
        c == IF default_config # None THEN default_config[1]
             ELSE <<DEFAULT_VT, DEFAULT_DELAY, DEFAULT_MAX_SIZE>>
        made == Connection_create_queue(st, name, c[1], c[2], c[3], t)
        q == Queue_init(made.st, name, None, t)
        handle == [id |-> Cardinality(DOMAIN cache) + 1, name |-> name,
                   config |-> q.info[1].config]
    IN  IF key \in DOMAIN cache
        THEN [st |-> st, cache |-> cache, val |-> Some(cache[key]), err |-> "",
              hit |-> TRUE]
        ELSE IF q.err # ""
        THEN [st |-> made.st, cache |-> cache, val |-> None, err |-> q.err,
              hit |-> FALSE]
        ELSE [st |-> q.st, cache |-> Put(cache, key, handle), val |-> Some(handle),
              err |-> "", hit |-> FALSE]

\* QueueManager.delete_queue: the cache is not touched
Manager_delete_queue(st, name) == fcall_delete_queue(st, name)

\* QueueManager.queues: the members of the set QUEUES
Manager_queues(st) == st.QUEUES

\* a call of the manager is counted and the store is written back
ManagerCommit(st) ==
    /\ calls < MaxCalls
    /\ calls' = calls + 1
    /\ QUEUES' = st.QUEUES
    /\ zset' = st.zset
    /\ hash' = st.hash
    /\ UNCHANGED svars

\* info: the handle get_queue returned, or the set queues returned;
\* created: get_queue made a new handle
ManagerGetQueue(name, default_config) ==
    \E r \in {Manager_get_queue(Store, memo, name, default_config, now)} :
        /\ ManagerCommit(r.st)
        /\ memo' = r.cache
        /\ wanted' = wanted \cup {name}
        /\ hist' = [hist EXCEPT ![name] = HistBase(Store, r.st, name)]
        /\ last' = [NoCall EXCEPT !.op = "get_queue", !.q = name,
                                  !.args = default_config, !.info = r.val,
                                  !.err = r.err, !.created = ~r.hit,
                                  !.pre = Some(Store)]
        /\ UNCHANGED <<now, usec, issued, lease, gone, erased, popping>>

ManagerDeleteQueue(name) ==
    \E r \in {Manager_delete_queue(Store, name)} :
        /\ ManagerCommit(r.st)
        /\ wanted' = wanted \ {name}
        /\ hist' = [hist EXCEPT ![name] = HistBase(Store, r.st, name)]
        /\ lease' = [lease EXCEPT ![name] = TrimLease(@, r.st, name)]
        /\ erased' = [erased EXCEPT ![name] = @ \cup Removed(Store, r.st, name)]
        /\ last' = [NoCall EXCEPT !.op = "manager.delete_queue", !.q = name,
                                  !.pre = Some(Store)]
        /\ UNCHANGED <<now, usec, issued, gone, popping, memo>>

ManagerQueues ==
    /\ ManagerCommit(Store)
    /\ last' = [NoCall EXCEPT !.op = "queues", !.info = Some(Manager_queues(Store))]
    /\ UNCHANGED <<now, usec, issued, hist, lease, gone, erased, popping, memo, wanted>>

ManagerNext ==
    \/ \E name \in QNames, default_config \in ManagerConfigs :
          ManagerGetQueue(name, default_config)
    \/ \E name \in QNames : ManagerDeleteQueue(name)
    \/ ManagerQueues
    \/ Tick

ManagerSpec == Init /\ [][ManagerNext]_vars

(***************************************************************************)
(* What the properties talk about.                                         *)
(***************************************************************************)
\* the call just made returned a message
Returned == last.op \in {"get_message", "pop_message"} /\ last.msg # None
ReturnedId == last.msg[1].message_id

\* the counters of q as stored (0 while the queue does not exist)
Counter(h, f) == IF f \in DOMAIN h.cfg THEN h.cfg[f] ELSE 0

\* the keys X, X:rc, X:fr, X:metadata of the map
MapKeys(h) == (DOMAIN h.body) \cup (DOMAIN h.rc) \cup (DOMAIN h.fr) \cup (DOMAIN h.metadata)

\* the end of a lease: receive time plus effective visibility timeout
LeaseEnd(l) == l.t + l.v * MsPerSec

C2_IndexIffBody ==
    /\ \A q \in QNames : DOMAIN zset[q] = DOMAIN hash[q].body
    /\ (last.op = "delete_message") => last.id[1] \notin MapKeys(hash[last.q])
    /\ (last.op = "pop_message" /\ last.msg # None) => ReturnedId \notin MapKeys(hash[last.q])

\* a message that had been received, so that X:rc and X:fr existed, was deleted
C2_Witness ==
    /\ last.op = "delete_message"
    /\ last.val = 1
    /\ hist[last.q].recvs >= 1

(***************************************************************************)
(* C3  msgs as reported by get_queue_info is the cardinality of the index  *)
(* and equals pushes - deletes of a present id - pops that returned a      *)
(* message; a get never changes msgs.                                      *)
(***************************************************************************)
C3_MsgsCount ==
    /\ [](\A q \in QUEUES :
            /\ get_queue_info(Store, q, now).val.metadata["msgs"] = Cardinality(DOMAIN zset[q])
            /\ Cardinality(DOMAIN zset[q]) = hist[q].pushes - hist[q].deletes - hist[q].pops)
    /\ [][last'.op = "get_message" =>
            Cardinality(DOMAIN zset'[last'.q]) = Cardinality(DOMAIN zset[last'.q])]_vars

\* pushes, a delete and a pop have all happened and a message is left
C3_Witness ==
    \E q \in QUEUES :
        /\ hist[q].pushes >= 2
        /\ hist[q].deletes + hist[q].pops >= 1
        /\ Cardinality(DOMAIN zset[q]) >= 1

(***************************************************************************)
(* C4  totalsent is the number of successful push_message calls since the  *)
(* queue was created: a successful push adds exactly 1, a failed push      *)
(* nothing, and get, pop, delete and set_queue_* never change it.          *)
(***************************************************************************)
C4_TotalSent ==
    /\ [](\A q \in QUEUES : hash[q].cfg["totalsent"] = hist[q].pushes)
    /\ [][\A q \in QUEUES :
            LET before == Counter(hash[q], "totalsent")
                after == Counter(hash'[q], "totalsent")
            IN  /\ (last'.op = "push_message" /\ last'.q = q /\ last'.err = "")
                      => after = before + 1
                /\ (last'.op = "push_message" /\ last'.q = q /\ last'.err # "")
                      => after = before
                /\ last'.op \in {"get_message", "pop_message", "delete_message",
                                 "set_queue_visibility_timeout", "set_queue_initial_delay",
                                 "set_queue_max_size"}
                      => after = before]_vars

\* a push was refused after an earlier one had succeeded
C4_Witness ==
    /\ last.op = "push_message"
    /\ last.err = "MessageTooLarge"
    /\ hist[last.q].pushes >= 1

EffectiveVt(c, h) == IF c.vt # None THEN c.vt[1] ELSE h.cfg["vt"]

\* rc and fr of the message the get_message step returned
C6_Counters(q, m) ==
    /\ RcOf(hash'[q], m) = RcOf(hash[q], m) + 1
    /\ FrOf(hash'[q], m) = IF FrOf(hash[q], m) = 0 THEN now ELSE FrOf(hash[q], m)

C7_Redelivery ==
    /\ [](\A q \in QNames : \A m \in DOMAIN lease[q] :
            now > LeaseEnd(lease[q][m]) => (m \in DOMAIN zset[q] /\ zset[q][m] <= now))
    /\ []((last.op = "get_message" /\ last.msg # None /\ last.prev # None) =>
            /\ last.msg[1].retrieval_count = last.prev[1].rc + 1
            /\ last.msg[1].first_retrieved = last.prev[1].fr)
    /\ [][last'.op = "get_message" =>
            \A m \in DOMAIN lease[last'.q] :
               (/\ zset[last'.q][m] <= now
                /\ \A o \in (DOMAIN zset[last'.q]) \ {m} : zset[last'.q][m] < zset[last'.q][o])
               => (last'.msg # None /\ last'.msg[1].message_id = m)]_vars

\* a message leased for a second or more was delivered again after the lease
C7_Witness ==
    /\ last.op = "get_message"
    /\ last.msg # None
    /\ last.prev # None
    /\ last.prev[1].v >= 1
    /\ now > LeaseEnd(last.prev[1])

(***************************************************************************)
(* C8  delete_message is idempotent and never an error: deleting an id     *)
(* that is absent, or deleting on a queue that does not exist, leaves the  *)
(* index, the map and the counters unchanged, and deleting an id twice     *)
(* yields the state of deleting it once.                                   *)
(***************************************************************************)
C8_DeleteIdempotent ==
    /\ [](\A q \in QNames : \A id \in issued \cup {make_message_id(0, 0)} :
            LET once == delete_message(Store, q, id)
                twice == delete_message(once.st, q, id)
            IN  once.err = "" /\ twice.err = "" /\ twice.st = once.st)
    /\ [][(last'.op = "delete_message" /\ last'.id[1] \notin DOMAIN zset[last'.q])
            => UNCHANGED <<QUEUES, zset, hash>>]_vars

\* an id that had been deleted was deleted again on its queue
C8_Witness ==
    /\ last.op = "delete_message"
    /\ last.val = 0
    /\ last.q \in QUEUES
    /\ last.id[1] \in gone[last.q]
    /\ hist[last.q].deletes >= 1

(***************************************************************************)
(* C9  Deleted is terminal: delete_message removes the message from any    *)
(* live state, and a message removed by delete_message or pop_message is   *)
(* never returned by a later get_message or pop_message.                   *)
(***************************************************************************)
C9_DeletedIsTerminal ==
    /\ [](\A q \in QNames : gone[q] \cap ((DOMAIN zset[q]) \cup MapKeys(hash[q])) = {})
    /\ [][last'.op = "delete_message" => last'.id[1] \notin DOMAIN zset'[last'.q]]_vars
    /\ [][(last'.op \in {"get_message", "pop_message"} /\ last'.msg # None)
            => last'.msg[1].message_id \notin gone[last'.q]]_vars

\* a receive later than the push of a message that delete_message removed
\* found nothing
C9_Witness ==
    /\ last.op \in {"get_message", "pop_message"}
    /\ last.msg = None
    /\ last.q \in QUEUES
    /\ \E id \in gone[last.q] : NowUs(now) > id.ts
    /\ hist[last.q].deletes >= 1

(***************************************************************************)
(* C10  pop_message is get_message followed by delete_message in one step: *)
(* with a ready message it returns the smallest-score ready one with rc    *)
(* after the increment, removes it from index and map and adds 1 to        *)
(* totalrecv; with none ready it returns empty and changes nothing.        *)
(***************************************************************************)
C10_PopAtomic ==
    [][last'.op = "pop_message" =>
          LET q == last'.q
              z == zset[q]
              ready == {m \in DOMAIN z : z[m] <= now}
          IN  IF ready = {}
              THEN last'.msg = None /\ UNCHANGED <<QUEUES, zset, hash>>
              ELSE /\ last'.msg # None
                   /\ LET m == last'.msg[1].message_id
                          got == get_message(Store, q, None, now)
                      IN  /\ m \in ready
                          /\ \A o \in ready : z[m] <= z[o]
                          /\ last'.msg[1].retrieval_count = RcOf(hash[q], m) + 1
                          /\ last'.msg[1].data = hash[q].body[m]
                          /\ zset'[q] = Drop(z, m)
                          /\ m \notin MapKeys(hash'[q])
                          /\ hash'[q].cfg["totalrecv"] = hash[q].cfg["totalrecv"] + 1
                          /\ hash'[q].cfg["totalsent"] = hash[q].cfg["totalsent"]
                          /\ got.msg # None /\ got.msg[1].message_id = m
                          /\ Store' = delete_message(got.st, q, m).st]_vars

\* a first receive by pop while another message stays in the queue
C10_Witness ==
    /\ last.op = "pop_message"
    /\ last.msg # None
    /\ last.msg[1].retrieval_count = 1
    /\ zset[last.q] # EmptyFn

PushDelay(z, m) == (z[m] - (m.ts \div UsPerMs)) \div MsPerSec

\* of the two entries a and b of the index z, a receive made once both are
\* ready returns a
DeliveredFirst(z, a, b) ==
    LET two == [m \in {a, b} |-> z[m]]
    IN  First(two, IF z[a] > z[b] THEN z[a] ELSE z[b]) = a

\* the ids a call stored, in the order it pushed them
Pushed(c) ==
    IF c.op = "push_message" /\ c.id # None THEN <<c.id[1]>>
    ELSE IF c.op = "push_many" THEN c.ids ELSE <<>>

C12_PushOrderPreserved ==
    [][LET new == Pushed(last')
           q == last'.q
       IN  \A i \in DOMAIN new :
              /\ \A a \in DOMAIN zset[q] :
                    (/\ a \in DOMAIN zset'[q]
                     /\ RcOf(hash[q], a) = 0
                     /\ PushDelay(zset[q], a) = PushDelay(zset'[q], new[i]))
                    => DeliveredFirst(zset'[q], a, new[i])
              /\ \A j \in DOMAIN new :
                    (i < j /\ new[i] \in DOMAIN zset'[q] /\ new[j] \in DOMAIN zset'[q])
                    => DeliveredFirst(zset'[q], new[i], new[j])]_vars

(***************************************************************************)
(* C13  Delayed delivery: a message pushed at now_ms with effective delay  *)
(* d seconds gets deliver_at = now_ms + d*1000 and is counted as hidden    *)
(* until then; no get_message or pop_message made before deliver_at        *)
(* returns it, and a message pushed later whose deliver_at is earlier is   *)
(* delivered first.                                                        *)
(***************************************************************************)
\* the delay of the queue q as a push finds it: the default when the push
\* creates the queue
QueueDelay(q) == IF q \in QUEUES THEN hash[q].cfg["delay"] ELSE DEFAULT_DELAY

\* the effective delay of the push c
EffectiveDelay(c) ==
    IF c.delay # None /\ c.delay[1] >= 0 THEN c.delay[1] ELSE QueueDelay(c.q)

C13_DelayedDelivery ==
    /\ [](\A q \in QUEUES :
            get_queue_info(Store, q, now).val.metadata["hiddenmsgs"]
               = Cardinality({m \in DOMAIN zset[q] : zset[q][m] > now}))
    /\ [][\A i \in DOMAIN Pushed(last') :
            LET b == Pushed(last')[i]
            IN  b \in DOMAIN zset'[last'.q] =>
                    zset'[last'.q][b] = now + EffectiveDelay(last') * MsPerSec]_vars
    /\ [][(last'.op \in {"get_message", "pop_message"} /\ last'.msg # None) =>
            LET z == zset[last'.q]
                m == last'.msg[1].message_id
            IN  /\ z[m] <= now
                /\ \A o \in DOMAIN z : z[m] <= z[o]]_vars

\* a message pushed without delay was received while one pushed before it
\* with a delay was still hidden
C13_Witness ==
    /\ last.op \in {"get_message", "pop_message"}
    /\ last.msg # None
    /\ \E a \in DOMAIN zset[last.q] :
          /\ a.ts < ReturnedId.ts
          /\ RcOf(hash[last.q], a) = 0
          /\ zset[last.q][a] > now
          /\ PushDelay(zset[last.q], a) > 0

(***************************************************************************)
(* C14  push_message uses the delay argument when it is given and >= 0,    *)
(* also an explicit 0 on a queue whose delay is > 0, and the queue's delay *)
(* when the argument is omitted (the client then sends -1) or negative.    *)
(***************************************************************************)
C14_EffectiveDelay ==
    /\ [](\A q \in Active, b \in Bodies :
            push_message(Store, q, b, None, None, None, now, 1)
               = fcall_push_message(Store, q, b, Some(-1), packb(EmptyFn), now, 1))
    /\ [][(last'.op = "push_message" /\ last'.id # None) =>
            LET q == last'.q
                d == PushDelay(zset'[q], last'.id[1])
            IN  /\ (last'.delay # None /\ last'.delay[1] >= 0) => d = last'.delay[1]
                /\ (last'.delay = None \/ last'.delay[1] < 0) => d = QueueDelay(q)]_vars

\* an explicit delay of 0 on a queue whose delay is 1 second
C14_Witness ==
    /\ last.op = "push_message"
    /\ last.id # None
    /\ last.delay = Some(0)
    /\ hash[last.q].cfg["delay"] > 0
    /\ zset[last.q][last.id[1]] = now

(***************************************************************************)
(* C15  create_queue is idempotent: on a name that does not exist it       *)
(* returns true and adds the name with the given configuration, zero       *)
(* counters and created = modified = now_s; on an existing queue it        *)
(* returns false and leaves configuration, counters, created, modified and *)
(* all messages unchanged, whatever vt, delay and maxsize it is given.     *)
(***************************************************************************)
C15_CreateIdempotent ==
    /\ [](\A q \in QNames, c1 \in CreateArgs, c2 \in CreateArgs :
            LET once == create_queue(Store, q, c1[1], c1[2], c1[3], now)
                twice == create_queue(once.st, q, c2[1], c2[2], c2[3], now)
            IN  twice.val = FALSE /\ twice.st = once.st)
    /\ [][last'.op = "create_queue" =>
            LET q == last'.q
                a == last'.args
            IN  IF q \notin QUEUES
                THEN /\ last'.created = TRUE
                     /\ QUEUES' = QUEUES \cup {q}
                     /\ zset' = [zset EXCEPT ![q] = EmptyFn]
                     /\ hash' = [hash EXCEPT ![q] =
                           [EmptyHash EXCEPT !.cfg =
                              [vt |-> a[1], delay |-> a[2], maxsize |-> a[3],
                               created |-> now \div MsPerSec,
                               modified |-> now \div MsPerSec,
                               totalrecv |-> 0, totalsent |-> 0]]]
                ELSE /\ last'.created = FALSE
                     /\ UNCHANGED <<QUEUES, zset, hash>>]_vars

\* create_queue on a queue that holds a message, with a visibility timeout
\* other than the queue's
C15_Witness ==
    /\ last.op = "create_queue"
    /\ last.created = FALSE
    /\ zset[last.q] # EmptyFn
    /\ hash[last.q].cfg["vt"] # last.args[1]
    /\ hash[last.q].cfg["totalsent"] >= 1

(***************************************************************************)
(* C16  delete_queue removes the name from the queue-name set and erases   *)
(* the queue's whole index and map; no message pushed before the delete is *)
(* returned by a later get_message or pop_message on that name; on a       *)
(* missing queue delete_queue changes nothing.                             *)
(***************************************************************************)
C16_DeleteQueueErases ==
    /\ [](\A q \in QNames : erased[q] \cap ((DOMAIN zset[q]) \cup MapKeys(hash[q])) = {})
    /\ [][last'.op = "delete_queue" =>
            /\ QUEUES' = QUEUES \ {last'.q}
            /\ zset' = [zset EXCEPT ![last'.q] = EmptyFn]
            /\ hash' = [hash EXCEPT ![last'.q] = EmptyHash]
            /\ last'.q \notin QUEUES => UNCHANGED <<QUEUES, zset, hash>>]_vars
    /\ [][(last'.op \in {"get_message", "pop_message"} /\ last'.msg # None)
            => last'.msg[1].message_id \notin erased[last'.q]]_vars

\* a receive on the name of a deleted queue, made when the message it held
\* would have been ready
C16_Witness ==
    /\ last.op \in {"get_message", "pop_message"}
    /\ last.msg = None
    /\ \E m \in erased[last.q] : m.ts \div UsPerMs <= now

(***************************************************************************)
(* C17  get_queue_info on a name that does not exist creates the queue     *)
(* with the defaults (vt 60, delay 0, maxsize 65565, totalsent, totalrecv, *)
(* msgs and hiddenmsgs 0) and adds it to the queue-name set; on an         *)
(* existing queue it returns the stored configuration and counters and     *)
(* changes no state.                                                       *)
(***************************************************************************)
C17_InfoCreatesDefault ==
    [][last'.op = "get_queue_info" =>
          LET q == last'.q
              config == last'.info[1].config
              metadata == last'.info[1].metadata
          IN  IF q \notin QUEUES
              THEN /\ QUEUES' = QUEUES \cup {q}
                   /\ config = [visibility_timeout |-> 60, initial_delay |-> 0,
                                max_size |-> 65565]
                   /\ metadata = [totalsent |-> 0, totalrecv |-> 0, msgs |-> 0,
                                  hiddenmsgs |-> 0, created |-> now \div MsPerSec,
                                  modified |-> now \div MsPerSec]
                   /\ zset' = [zset EXCEPT ![q] = EmptyFn]
                   /\ hash'[q].cfg["vt"] = 60
                   /\ hash'[q].cfg["delay"] = 0
                   /\ hash'[q].cfg["maxsize"] = 65565
              ELSE /\ UNCHANGED <<QUEUES, zset, hash>>
                   /\ config = [visibility_timeout |-> hash[q].cfg["vt"],
                                initial_delay |-> hash[q].cfg["delay"],
                                max_size |-> hash[q].cfg["maxsize"]]
                   /\ metadata =
                        [totalsent |-> hash[q].cfg["totalsent"],
                         totalrecv |-> hash[q].cfg["totalrecv"],
                         created |-> hash[q].cfg["created"],
                         modified |-> hash[q].cfg["modified"],
                         msgs |-> Cardinality(DOMAIN zset[q]),
                         hiddenmsgs |-> Cardinality({m \in DOMAIN zset[q] :
                                                       zset[q][m] > now})]]_vars

\* get_queue_info created the queue
C17_Witness ==
    /\ last.op = "get_queue_info"
    /\ last.created
    /\ last.q \in QUEUES
    /\ last.info[1].config.visibility_timeout = 60
    /\ last.info[1].metadata["msgs"] = 0

(***************************************************************************)
(* C18  push_message to a name that does not exist never fails because of  *)
(* the absence: it creates the queue with the default configuration, adds  *)
(* the name to the queue-name set, stores the message and leaves           *)
(* totalsent = 1 and msgs = 1.                                             *)
(***************************************************************************)
C18_PushCreatesQueue ==
    [][(last'.op = "push_message" /\ last'.q \notin QUEUES) =>
          LET q == last'.q
          IN  /\ last'.err = ""
              /\ last'.id # None
              /\ QUEUES' = QUEUES \cup {q}
              /\ hash'[q].cfg["vt"] = 60
              /\ hash'[q].cfg["delay"] = 0
              /\ hash'[q].cfg["maxsize"] = 65565
              /\ hash'[q].cfg["totalsent"] = 1
              /\ hash'[q].cfg["totalrecv"] = 0
              /\ DOMAIN zset'[q] = {last'.id[1]}
              /\ hash'[q].body = [m \in {last'.id[1]} |-> last'.body]
              /\ get_queue_info(Store', q, now).val.metadata["msgs"] = 1]_vars

\* a push created the queue and stored its message
C18_Witness ==
    /\ last.op = "push_message"
    /\ last.created
    /\ last.id # None
    /\ last.q \in QUEUES
    /\ hash[last.q].cfg["totalsent"] = 1
    /\ Len(last.body) = 2

(***************************************************************************)
(* C19  push_message fails with MessageTooLarge exactly when the queue's   *)
(* maxsize is > 0 and the body is longer than maxsize (a maxsize of 0      *)
(* accepts any length); a failed push leaves the index, the map, totalsent *)
(* and every other counter unchanged.                                      *)
(***************************************************************************)
\* the maxsize of the queue q as a push finds it: the default when the push
\* creates the queue
QueueMaxSize(q) == IF q \in QUEUES THEN hash[q].cfg["maxsize"] ELSE 65565

C19_MessageTooLarge ==
    [][last'.op = "push_message" =>
          /\ last'.err \in {"", "MessageTooLarge"}
          /\ (last'.err = "MessageTooLarge")
                <=> (QueueMaxSize(last'.q) > 0 /\ Len(last'.body) > QueueMaxSize(last'.q))
          /\ last'.err # "" => (last'.id = None /\ UNCHANGED <<QUEUES, zset, hash>>)
          /\ last'.err = "" => last'.id # None]_vars

\* a body of two bytes was refused by a queue of maxsize 1 that holds a message
C19_Witness ==
    /\ last.op = "push_message"
    /\ last.err = "MessageTooLarge"
    /\ Len(last.body) = 2
    /\ hash[last.q].cfg["maxsize"] = 1
    /\ hash[last.q].cfg["totalsent"] = 1
    /\ Cardinality(DOMAIN zset[last.q]) = 1

(***************************************************************************)
(* C20  Queue.push_many is all-or-nothing: when the serialization or the   *)
(* push of one message of the batch fails, none of the batch's messages is *)
(* in the index or the map afterwards and totalsent is what it was before  *)
(* the batch; otherwise all messages are stored and their ids are returned *)
(* in input order.                                                         *)
(***************************************************************************)
C20_PushManyAllOrNothing ==
    [][last'.op = "push_many" =>
          LET q == last'.q
              batch == last'.args
              ids == last'.ids
          IN  IF last'.err # ""
              THEN /\ DOMAIN zset'[q] = DOMAIN zset[q]
                   /\ MapKeys(hash'[q]) = MapKeys(hash[q])
                   /\ Counter(hash'[q], "totalsent") = Counter(hash[q], "totalsent")
              ELSE /\ Len(ids) = Len(batch)
                   /\ \A i \in DOMAIN batch :
                         /\ ids[i] \in (DOMAIN zset'[q]) \ (DOMAIN zset[q])
                         /\ hash'[q].body[ids[i]] = serialize(batch[i]).val
                   /\ \A i, j \in DOMAIN batch : i # j => ids[i] # ids[j]
                   /\ Counter(hash'[q], "totalsent")
                         = Counter(hash[q], "totalsent") + Len(batch)]_vars

(***************************************************************************)
(* C21  Queue.push_many is isolated from concurrent clients: the call of   *)
(* another client (get, pop, delete or metadata) that comes next after a   *)
(* push_many runs on a state in which all messages of the batch are in the *)
(* index or none of them is.                                               *)
(***************************************************************************)
Observers == {"get_message", "pop_message", "delete_message", "get_queue_info"}

C21_BatchNeverPartial ==
    [][(last.op = "push_many" /\ last'.op \in Observers) =>
          LET present == last.wrote \cap DOMAIN zset[last.q]
          IN  present = {} \/ Cardinality(present) = Len(last.args)]_vars

(***************************************************************************)
(* C22  A Queue.get on a queue that is empty, has only hidden messages or  *)
(* does not exist returns None, raises NoMessageInQueue exactly when       *)
(* raise_on_empty is true, and leaves the store as it was: totalrecv and   *)
(* every message's rc, fr and deliver_at are unchanged.                    *)
(***************************************************************************)
NothingReady(st, q, t) == q \notin st.QUEUES \/ Ready(st.zset[q], t) = {}

C22_EmptyGet ==
    last.op = "Queue.get" =>
        /\ NothingReady(last.pre[1], last.q, now) =>
              /\ last.msg = None
              /\ last.err = (IF last.roe THEN "NoMessageInQueue" ELSE "")
              /\ Store = last.pre[1]
        /\ last.err = "NoMessageInQueue" =>
              last.roe /\ NothingReady(last.pre[1], last.q, now)

\* a get with raise_on_empty found only a hidden message
C22_Witness ==
    /\ last.op = "Queue.get"
    /\ last.err = "NoMessageInQueue"
    /\ zset[last.q] # EmptyFn
    /\ \A m \in DOMAIN zset[last.q] : zset[last.q][m] > now
    /\ hash[last.q].cfg["totalrecv"] = 1

Hidden(z, t) == {m \in DOMAIN z : z[m] > t}

SetterField(op) ==
    CASE op = "set_queue_visibility_timeout" -> "vt"
      [] op = "set_queue_initial_delay" -> "delay"
      [] op = "set_queue_max_size" -> "maxsize"

C25_SetFieldFrame ==
    /\ [](\A q \in QUEUES : hash[q].cfg["created"] <= hash[q].cfg["modified"])
    /\ [][last'.op \in {"set_queue_visibility_timeout", "set_queue_initial_delay",
                        "set_queue_max_size"} =>
             LET q == last'.q
                 f == SetterField(last'.op)
                 cfg == hash[q].cfg
             IN  /\ hash'[q].cfg = [x \in DOMAIN cfg |->
                                       CASE x = f -> last'.val
                                         [] x = "modified" -> NowS(now)
                                         [] OTHER -> cfg[x]]
                 /\ hash' = [hash EXCEPT ![q].cfg = hash'[q].cfg]
                 /\ zset' = zset
                 /\ QUEUES' = QUEUES]_vars

\* the maximum size was set in a later second than the queue was created
C25_Witness ==
    /\ last.op = "set_queue_max_size"
    /\ hash[last.q].cfg["maxsize"] = last.val
    /\ hash[last.q].cfg["created"] < hash[last.q].cfg["modified"]
    /\ hash[last.q].cfg["modified"] = NowS(now)
    /\ zset[last.q] # EmptyFn

(***************************************************************************)
(* C26  create_queue with an invalid name fails and creates nothing: an    *)
(* empty name fails with InvalidQueueName, a name longer than 160          *)
(* characters with QueueNameTooLong, any other name with a character       *)
(* outside [A-Za-z0-9._-] with InvalidCharacter carrying the first such    *)
(* character; the queue-name set is unchanged.                             *)
(***************************************************************************)
C26_InvalidNameRejected ==
    [][(last'.op = "create_queue"
        /\ ~validate_queue_name(Chars(last'.q), FALSE).val) =>
          /\ last'.err = validate_queue_name(Chars(last'.q), TRUE).err
          /\ last'.ch = validate_queue_name(Chars(last'.q), TRUE).ch
          /\ ~last'.created
          /\ QUEUES' = QUEUES]_vars

(***************************************************************************)
(* C27  When Queue.push is called with a ttl, the metadata stored with the *)
(* message contains ttl with that value next to sent, and a Queue.get      *)
(* returns the metadata as it is stored.                                   *)
(***************************************************************************)
C27_TtlStored ==
    /\ (last.op = "Queue.push" /\ last.ttl # None /\ last.err = "") =>
          LET metadata == hash[last.q].metadata[last.id[1]]
          IN  /\ "sent" \in DOMAIN metadata
              /\ "ttl" \in DOMAIN metadata
              /\ metadata["ttl"] = last.ttl[1]
    /\ (last.op = "Queue.get" /\ last.msg # None) =>
          last.msg[1].metadata = hash[last.q].metadata[last.msg[1].message_id]

(***************************************************************************)
(* Properties of the stream consumers.                                     *)
(***************************************************************************)
IsAscending(seq) == \A i, j \in DOMAIN seq : i < j => seq[i] < seq[j]

\* the last call was a Consumer.get that returned
GotMessages == last.op = "get" /\ last.err = ""

\* the last call ran an autoclaim: alone, or as the first command of a get
\* (which returned at once when it claimed count entries)
RanAutoclaim ==
    /\ last.err = ""
    /\ \/ last.op \in {"autoclaim", "get.autoclaim"}
       \/ last.op = "get" /\ Len(last.claimed) = last.count

\* the unread entries of the group when the last call began
UnreadBefore ==
    {id \in 1..entries : id > last.pre[1][last.g][1].last}

\* what a get returned when the set idle was there to claim, but for the
\* order of the whole list
C28_Parts(idle) ==
    GotMessages =>
        /\ last.claimed = Take(Ascending(idle), last.count)
        /\ last.ret = last.claimed \o last.fresh
        /\ Len(last.ret) <= last.count
        /\ Len(last.claimed) = last.count => last.fresh = <<>>
        /\ Len(last.claimed) < last.count =>
              last.fresh = Take(Ascending(UnreadBefore), last.count - Len(last.claimed))
        /\ IsAscending(last.claimed)
        /\ IsAscending(last.fresh)

(***************************************************************************)
(* C28 as stated: Consumer.get(count) first claims up to count entries     *)
(* pending for longer than max_pending_time, reads up to the remainder     *)
(* from the unread entries only if it claimed fewer than count, and        *)
(* returns the claimed entries followed by the fresh ones, at most count,  *)
(* in ascending id order.                                                  *)
(***************************************************************************)
C28_GetAscending ==
    /\ C28_Parts(last.longer)
    /\ GotMessages => IsAscending(last.ret)

(***************************************************************************)
(* C28  Consumer.get(count) first claims up to count entries pending for   *)
(* at least max_pending_time, reads up to the remainder from the unread    *)
(* entries only if it claimed fewer than count, and returns the claimed    *)
(* entries followed by the fresh ones, at most count; each part is in      *)
(* ascending id order, and so is the whole list unless the group was       *)
(* destroyed or its last-delivered id was moved back.                      *)
(***************************************************************************)
C28_ClaimedThenFresh ==
    /\ C28_Parts(last.idle)
    /\ (GotMessages /\ ~seen[last.g].rewound) => IsAscending(last.ret)

\* a get for two entries claimed one and read one
C28_Witness ==
    /\ GotMessages
    /\ last.count = 2
    /\ Len(last.claimed) = 1
    /\ Len(last.fresh) = 1
    /\ ~seen[last.g].rewound

\* what an ack does to the pending entries of its group
C29_AckRemoves ==
    (last.op = "ack" /\ groups[last.g] # None) =>
        LET before == last.pre[1][last.g][1].pel
            after == groups[last.g][1].pel
        IN  /\ DOMAIN after = (DOMAIN before) \ Range(last.ids)
            /\ \A id \in DOMAIN after : after[id] = before[id]

\* no id of the set S of group g comes back from an autoclaim or a read
NotReturned(S) ==
    /\ RanAutoclaim => Range(last.claimed) \cap S = {}
    /\ GotMessages => Range(last.fresh) \cap S = {}

(***************************************************************************)
(* C29 as stated: Consumer.ack(ids) removes the entries from the pending   *)
(* set of the group whoever owns them, and no later Consumer.get returns   *)
(* an acknowledged entry, as a claimed or as a fresh one.                  *)
(***************************************************************************)
C29_AckedNeverReturned ==
    /\ C29_AckRemoves
    /\ last.op \in {"autoclaim", "get.autoclaim", "get"} =>
          NotReturned(seen[last.g].acked)

(***************************************************************************)
(* C29  Consumer.ack(ids) removes the entries from the pending set of the  *)
(* group whoever owns them, and no later Consumer.get returns an           *)
(* acknowledged entry, as a claimed or as a fresh one, unless the group    *)
(* was destroyed or its last-delivered id was moved back.                  *)
(***************************************************************************)
C29_AckedNotRedelivered ==
    /\ C29_AckRemoves
    /\ (last.op \in {"autoclaim", "get.autoclaim", "get"} /\ ~seen[last.g].rewound) =>
          NotReturned(seen[last.g].acked)

\* an entry pending for one consumer was acknowledged by the other; a get
\* after more than max_pending_time returned nothing
C29_Witness ==
    /\ GotMessages
    /\ last.ret = <<>>
    /\ seen[last.g].others # {}
    /\ ~seen[last.g].rewound
    /\ now > StartMs + max_pending_time

\* what a pop does: nothing it returns is pending, the last-delivered id is
\* at or after everything it returns
C30_PopReads(S) ==
    (last.op = "pop" /\ last.err = "") =>
        /\ last.ret = Take(Ascending(UnreadBefore), last.count)
        /\ \A id \in Range(last.ret) : id <= groups[last.g][1].last
        /\ Range(last.ret) \cap S = {}

(***************************************************************************)
(* C30 as stated: no entry Consumer.pop returns is ever pending, the       *)
(* group's last-delivered id moves past the entries it returns, and no     *)
(* later get or pop of any consumer of the group returns them.             *)
(***************************************************************************)
C30_PoppedNeverReturned ==
    /\ C30_PopReads(last.was[1][last.g].popped)
    /\ \A g \in Groups : groups[g] # None =>
          seen[g].popped \cap DOMAIN groups[g][1].pel = {}
    /\ last.op \in {"autoclaim", "get.autoclaim", "get"} =>
          NotReturned(seen[last.g].popped)

(***************************************************************************)
(* C30  Unless the group was destroyed or its last-delivered id was moved  *)
(* back: no entry Consumer.pop returns is ever pending, and no later get   *)
(* or pop of any consumer of the group returns it; the last-delivered id   *)
(* of the group moves past the entries a pop returns.                      *)
(***************************************************************************)
C30_PoppedNotRedelivered ==
    /\ C30_PopReads(IF seen[last.g].rewound THEN {} ELSE last.was[1][last.g].popped)
    /\ \A g \in Groups : (groups[g] # None /\ ~seen[g].rewound) =>
          seen[g].popped \cap DOMAIN groups[g][1].pel = {}
    /\ (last.op \in {"autoclaim", "get.autoclaim", "get"} /\ ~seen[last.g].rewound) =>
          NotReturned(seen[last.g].popped)

\* an entry was popped; a get after more than max_pending_time returned
\* nothing
C30_Witness ==
    /\ GotMessages
    /\ last.ret = <<>>
    /\ seen[last.g].popped # {}
    /\ ~seen[last.g].rewound
    /\ now > StartMs + max_pending_time

(***************************************************************************)
(* C31  When a get or an autoclaim of a consumer claims an entry pending   *)
(* for another consumer, the entry is afterwards pending for the claimer   *)
(* and its idle time starts again at the time of the claim: no autoclaim,  *)
(* of a get or alone, claims an entry that was claimed less than           *)
(* max_pending_time before.                                                *)
(***************************************************************************)
C31_ClaimTransfers ==
    RanAutoclaim =>
        \A id \in Range(last.claimed) :
            /\ id \in DOMAIN last.pre[1][last.g][1].pel
            /\ id \in DOMAIN last.was[1][last.g].taken =>
                  now - last.was[1][last.g].taken[id].at >= max_pending_time
            /\ groups[last.g][1].pel[id] = [owner |-> last.c, time |-> now]

\* an entry pending for one consumer was claimed by the other; later, and
\* less than max_pending_time later, the first consumer's get claimed
\* nothing while the entry was still pending for the claimer
C31_Witness ==
    /\ RanAutoclaim
    /\ last.op \in {"get", "get.autoclaim"}
    /\ last.claimed = <<>>
    /\ \E id \in DOMAIN seen[last.g].taken :
          LET took == seen[last.g].taken[id]
          IN  /\ took.from = last.c
              /\ took.by # last.c
              /\ now > took.at
              /\ now - took.at < max_pending_time
              /\ id \in DOMAIN groups[last.g][1].pel
              /\ groups[last.g][1].pel[id] = [owner |-> took.by, time |-> took.at]

(***************************************************************************)
(* Delivery to the consumers that call get for ever.                       *)
(***************************************************************************)
\* the last call published the entry id while the group was there
PublishedToGroup(id) ==
    /\ last.op = "publish"
    /\ last.id = id
    /\ \A g \in Groups : groups[g] # None

\* the last call was a get or a pop that returned the entry id
Delivered(id) ==
    /\ last.op \in {"get", "pop"}
    /\ last.err = ""
    /\ id \in Range(last.ret)

\* the last call was a get that returned the entry id
Got(id) == GotMessages /\ id \in Range(last.ret)

\* the entry id has been pending for longer than max_pending_time
PendingLong(id) == \E g \in Groups : id \in LongPending(g)

\* the last call acknowledged the entry id
Acked(id) == last.op = "ack" /\ id \in Range(last.ids)

Destroyed == last.op = "delete_consumer_group"
Moved == last.op = "set_group_offset_id"

GotQueue == last.op = "get_queue" /\ last.err = ""

SamePrefix(a, b) == Len(base36encode(a.ts)) = Len(base36encode(b.ts))

\* the last call was a push_message that stored a message
PushedOne == last.op = "push_message" /\ last.id # None

(***************************************************************************)
(* C35 as stated: an id is the base-36 timestamp followed by 22 random     *)
(* characters; of two ids with timestamp prefixes of the same length the   *)
(* one with the smaller timestamp sorts first; no id is issued twice; and  *)
(* the id of a push_message sorts after the ids of all the pushes made     *)
(* before it.                                                              *)
(***************************************************************************)
C35_IdsSortInPushOrder ==
    /\ \A a \in issued : Len(IdString(a)) = Len(base36encode(a.ts)) + RandomLen
    /\ \A a, b \in issued :
          (a.ts < b.ts /\ SamePrefix(a, b)) => StrLess(IdString(a), IdString(b))
    /\ \A a, b \in issued : IdString(a) = IdString(b) => a = b
    /\ PushedOne =>
          \A a \in issued \ {last.id[1]} :
              SamePrefix(a, last.id[1]) => StrLess(IdString(a), IdString(last.id[1]))

C38_QueuesIsolated ==
    [][/\ \A q \in KeyNames : validate_queue_name(Chars(q), TRUE).err = ""
       /\ \A q \in KeyNames : \A o \in KeyNames \ {q} :
             (last'.q = q /\ last'.op # "tick") =>
                 /\ zset'[o] = zset[o]
                 /\ hash'[o] = hash[o]
                 /\ (o \in QUEUES') = (o \in QUEUES)]_vars

(***************************************************************************)
(* The counters of a message.                                              *)
(***************************************************************************)
\* the sum of rc over the messages ids of the map h
RECURSIVE SumRc(_, _)
SumRc(h, ids) ==
    IF ids = {} THEN 0
    ELSE LET m == CHOOSE x \in ids : TRUE
         IN  RcOf(h, m) + SumRc(h, ids \ {m})

C40_ResetRewinds ==
    (last.op = "reset_group_offset" /\ last.pre[1][last.g] # None) =>
        /\ last.err = ""
        /\ groups[last.g][1].last = 0
        /\ groups[last.g][1].consumers = last.pre[1][last.g][1].consumers
====
